---- MODULE Spec2Model ----
(***************************************************************************)
(* Mockup generation pipeline of the PSD mockup service.                   *)
(*                                                                         *)
(*   src/src/server.js           the /render-mockup handler                *)
(*   src/src/image-processor.js  generateMockup and the compositors (the   *)
(*                               second, current snapshot, lines 446-1206) *)
(*                                                                         *)
(* The specifications that share the module:                               *)
(*   Spec         one render request: handler, generateMockup calls, the   *)
(*                Photopea compositor's browser session, the 3 min race    *)
(*   SpecLocator  the two layer locators applied to bounded layer trees    *)
(*   SpecFiles    two concurrent requests and the file paths they use      *)
(*   SpecDownload downloadDesignImage and its retry loop                   *)
(*   SpecTemplate findTemplateForSku: local files, then the remote source  *)
(*   SpecRaster   the geometry of the three in-process compositors         *)
(*   SpecScript   one generateMockupWithPhotopea call and its page script  *)
(*   SpecPublish  cleanup, the response URL and the static mount           *)
(*   SpecWait     waitForDocument's polling of the editor                  *)
(*   SpecFetch    downloadFile: request, pipe and the promise it returns   *)
(*   SpecPaths    the paths built from sku and designId                    *)
(***************************************************************************)
EXTENDS Integers, Sequences, FiniteSets, TLC

VARIABLES
    \* ---- one render request (Spec) ----
    mode,          \* req.body.mode || 'auto'
    tmpl,          \* kind of templatePath: "psd", "png", "none"
    tree,          \* layer tree of the PSD template
    designImagePath, \* handler's designImagePath: "unset", "saved", or "error" when the download threw
    hpc,           \* position of the handler
    layerIdx,      \* index into LAYER_NAMES of the current loop iteration
    mockupPath,    \* handler's mockupPath: "unset", "undefined" or its producer
    mockupError,   \* handler's mockupError is non-null
    status,        \* processingStatus: methodUsed, fallbackUsed
    response,      \* the JSON body sent, or NoResponse
    task,          \* one generateMockup call per loop iteration
    log,           \* per generateMockup call (0: the handler itself), its attempts in order
    \* ---- layer locators (SpecLocator) ----
    lpc, ltree, lname, lremote, llocal,
    \* ---- concurrent requests and files (SpecFiles) ----
    remoteCfg,     \* PSD_TEMPLATE_URL: "off", "direct" (ends in .psd) or "base"
    now,           \* Date.now(), in milliseconds
    req,           \* the requests in flight
    touched,       \* per request, the paths it created, wrote or deleted
    \* ---- downloadDesignImage (SpecDownload) ----
    dpc,           \* position in downloadDesignImage
    urlExt,        \* path.extname(urlObj.pathname)
    designDir,     \* second argument: "id" (a bare name) or "path"
    attempt,       \* attempt
    lastError,     \* lastError
    dlog,          \* downloadFile calls and waits, in order
    dresult,       \* the returned outputPath or the thrown error
    \* ---- findTemplateForSku (SpecTemplate) ----
    localFiles,    \* the files that exist in TEMPLATES_DIR
    templateUrl,   \* PSD_TEMPLATE_URL: "none", "direct" (ends in .psd) or "base"
    remote,        \* the remote source answers ("up") or never does ("silent")
    tpc,           \* position in findTemplateForSku
    resolves,      \* number of findTemplateForSku calls so far
    tresult,       \* what the last call returned
    tempFiles,     \* the template files in TEMP_DIR, each "ok" or "empty"
    tlog,          \* the downloads issued, in order
    \* ---- compositor geometry (SpecRaster) ----
    rpc,           \* "start", "done" or "threw"
    rin,           \* the sizes the compositor reads
    rout,          \* the raster it writes
    rprev,         \* the raster an earlier call with the same inputs wrote
    \* ---- one generateMockupWithPhotopea call (SpecScript) ----
    spc,           \* position in the function
    sidx,          \* index of the next statement of the page script
    strace,        \* the operations invoked so far, in order
    spending,      \* "none", "return", or the message of the error thrown
    spng,          \* photopeaScript.png
    \* ---- output, cleanup and static route (SpecPublish) ----
    upc,           \* position: in the handler's end, or in a cleanupFiles call of its own
    ufiles,        \* the files that exist
    ubefore,       \* the files that existed when cleanupFiles was called
    uarg,          \* the argument of cleanupFiles
    uver,          \* which downloader module is loaded
    uenv,          \* process.env.PUBLIC_PATH, "" when unset
    uurl,          \* mockupUrl of the response
    userved,       \* status of the GET of mockupUrl
    \* ---- waitForDocument of the older page script (SpecWait) ----
    wpc,           \* position: "open", "check", "resolved", "rejected"
    wdoc,          \* the document waited for: "template", then "design"
    wlayers,       \* doc.layers: "missing", "empty" or "nonempty"
    wattempts,     \* attempts of the waitForDocument call of each document
    \* ---- downloadFile inside the retry loop (SpecFetch) ----
    fpc,           \* position: "request", "piping", "wait", "returned", "threw"
    fserver,       \* the image host answers requests ("up") or never does ("silent")
    fattempt,      \* attempt of downloadDesignImage
    fstream,       \* response.data: "none", "flowing", "ended", "errored", "stalled"
    fwriter,       \* the write stream: "none", "open", "finished", "errored"
    ferrors,       \* the errors of the failed attempts, in order
    \* ---- the paths of one render request (SpecPaths) ----
    jpc,           \* position: "find", "remote", "job", "design", "done"
    jsku,          \* req.body.sku, a string of tokens
    jdesignId,     \* req.body.designId, a string of tokens
    jurl,          \* PSD_TEMPLATE_URL: "none", "direct" (ends in .psd) or "base"
    jobDir,        \* the handler's jobDir once computed
    jread,         \* the local template path findTemplateForSku returned
    jmade          \* the directories and files the request created

pvars == <<mode, tmpl, tree, designImagePath, hpc, layerIdx, mockupPath, mockupError, status,
           response, task, log>>
lvars == <<lpc, ltree, lname, lremote, llocal>>
fvars == <<remoteCfg, now, req, touched>>
dvars == <<dpc, urlExt, designDir, attempt, lastError, dlog, dresult>>
tvars == <<localFiles, templateUrl, remote, tpc, resolves, tresult, tempFiles, tlog>>
rvars == <<rpc, rin, rout, rprev>>
svars == <<spc, sidx, strace, spending, spng>>
uvars == <<upc, ufiles, ubefore, uarg, uver, uenv, uurl, userved>>
wvars == <<wpc, wdoc, wlayers, wattempts>>
fetchvars == <<fpc, fserver, fattempt, fstream, fwriter, ferrors>>
pathvars == <<jpc, jsku, jdesignId, jurl, jobDir, jread, jmade>>
xvars == <<rvars, svars, uvars, wvars, fetchvars, pathvars>>
vars  == <<pvars, lvars, fvars, dvars, tvars, xvars>>

(***************************************************************************)
(* Layer names.  A name is a sequence of characters over a three-letter    *)
(* alphabet in which "D" is the only upper-case letter.                    *)
(***************************************************************************)
LowerChar(c) == IF c = "D" THEN "d" ELSE c

\* String.prototype.toLowerCase
toLowerCase(s) == [i \in DOMAIN s |-> LowerChar(s[i])]

\* String.prototype.includes: t occurs in s as a contiguous substring
includes(s, t) ==
    \E i \in 0..(Len(s) - Len(t)) : SubSeq(s, i + 1, i + Len(t)) = t

NameDesign     == <<"D">>          \* stands for "Design"
NameLower      == <<"d">>          \* stands for "design"
NameDesignHere == <<"d", "x">>     \* stands for "design here"
NameOther      == <<"x">>          \* stands for a name unrelated to "design"

LayerNameSet == {NameDesign, NameLower, NameDesignHere}

\* bounds of the layer trees
MaxTop    == 2      \* top-level layers of a template
MaxNested == 1      \* layers inside one group

Leaf(n) == [name |-> n, layers |-> <<>>]

SeqsUpTo(S, n) == UNION {[1..k -> S] : k \in 0..n}

Leaves == {Leaf(n) : n \in LayerNameSet}

Nodes == {[name |-> n, layers |-> ch] :
              n \in LayerNameSet, ch \in SeqsUpTo(Leaves, MaxNested)}

Trees == SeqsUpTo(Nodes, MaxTop) \ {<<>>}

\* a located layer is identified by its index path; Null is "no layer"
Null == <<>>

\* the layer at an index path
RECURSIVE LayerAt(_, _)
LayerAt(layers, p) ==
    IF Len(p) = 1 THEN layers[p[1]]
    ELSE LayerAt(layers[p[1]].layers, Tail(p))

\* all index paths of a layer list in pre-order (a group before its members)
RECURSIVE PreOrder(_, _, _)
PreOrder(layers, prefix, i) ==
    IF i > Len(layers) THEN <<>>
    ELSE <<Append(prefix, i)>>
         \o PreOrder(layers[i].layers, Append(prefix, i), 1)
         \o PreOrder(layers, prefix, i + 1)

(***************************************************************************)
(* findLayerByName of the Photopea page script: three passes over `layers`,*)
(* each of which recurses into a group with the whole function.            *)
(***************************************************************************)
TierMatch(t, layerName, name) ==
    CASE t = 1 -> layerName = name
      [] t = 2 -> toLowerCase(layerName) = toLowerCase(name)
      [] t = 3 -> includes(toLowerCase(layerName), toLowerCase(name))

\* mutant of TierLoop: a pass that looks at the layers of one level only
RECURSIVE TierLoopOneLevel(_, _, _, _, _)
TierLoopOneLevel(t, layers, name, prefix, i) ==
    IF i > Len(layers) THEN Null
    ELSE IF TierMatch(t, layers[i].name, name) THEN Append(prefix, i)
    ELSE TierLoopOneLevel(t, layers, name, prefix, i + 1)

RECURSIVE findLayerByNameAt(_, _, _), TierLoop(_, _, _, _, _)
TierLoop(t, layers, name, prefix, i) ==
    IF i > Len(layers) THEN Null
    ELSE IF TierMatch(t, layers[i].name, name) THEN Append(prefix, i)
    ELSE LET nestedResult ==
                 IF Len(layers[i].layers) > 0
                 THEN findLayerByNameAt(layers[i].layers, name, Append(prefix, i))
                 ELSE Null
         IN  IF nestedResult # Null THEN nestedResult
             ELSE TierLoop(t, layers, name, prefix, i + 1)

findLayerByNameAt(layers, name, prefix) ==
    LET exact == TierLoop(1, layers, name, prefix, 1)
        nocase == TierLoop(2, layers, name, prefix, 1)
    IN  IF exact # Null THEN exact
        ELSE IF nocase # Null THEN nocase
        ELSE TierLoop(3, layers, name, prefix, 1)

findLayerByName(layers, name) == findLayerByNameAt(layers, name, <<>>)

(***************************************************************************)
(* findDesignLayer of generateMockupWithPsdJs: exact name only, depth      *)
(* first, starting at the root node of psd.tree().                         *)
(***************************************************************************)
RootName == <<"r">>

RECURSIVE findDesignLayerAt(_, _, _, _)
findDesignLayerAt(layers, name, prefix, i) ==
    IF i > Len(layers) THEN Null
    ELSE IF layers[i].name = name THEN Append(prefix, i)
    ELSE LET found == findDesignLayerAt(layers[i].layers, name, Append(prefix, i), 1)
         IN  IF found # Null THEN found
             ELSE findDesignLayerAt(layers, name, prefix, i + 1)

\* the root node is no layer: a hit on it is reported as the path <<0>>
findDesignLayer(layers, name) ==
    IF RootName = name THEN <<0>>
    ELSE findDesignLayerAt(layers, name, <<>>, 1)

(***************************************************************************)
(* One render request: POST /render-mockup.                                *)
(***************************************************************************)
Modes == {"auto", "photopea", "psdjs", "other"}

\* number of entries of LAYER_NAMES (config.layerNames, 8 by default)
NumLayerNames == 2

AllCandidates == <<NameOther, NameDesign, NameLower, NameDesignHere>>

LAYER_NAMES == SubSeq(AllCandidates, 1, NumLayerNames)

Calls == 1..NumLayerNames

\* the PSD templates a request may resolve to
TemplateTrees ==
    { <<Leaf(NameLower)>>,
      <<[name |-> NameLower, layers |-> <<Leaf(NameDesignHere)>>], Leaf(NameDesign)>> }

NoTree == <<>>

\* error: which res.json sent the failure ("download": 520-526, "mockup": 629-635,
\* "endpoint": 675-680)
NoResponse == [sent |-> FALSE, success |-> FALSE, mockupUrl |-> "none", error |-> "none"]

\* mutant of CatchResponse: the body sent from the catch carries no mockupUrl
CatchResponseNoUrl ==
    [sent |-> TRUE, success |-> FALSE, mockupUrl |-> "none", error |-> "endpoint"]

\* the handler's outer catch: res.status(200).json({ success: false, error,
\* mockupUrl: req.body?.imageUrl || null, processingTimeMs })
CatchResponse ==
    [sent |-> TRUE, success |-> FALSE, mockupUrl |-> "imageUrl", error |-> "endpoint"]

\* app: whether the page's app API was callable when last evaluated; the page
\* and the value are gone ("unchecked") once the compositor has returned
IdleTask == [pc |-> "idle", browser |-> "none", pending |-> "none", out |-> "undefined",
             app |-> "unchecked"]

Settled == {"returned", "threw"}

PhotopeaPcs == {"pp_launch", "pp_goto", "pp_check", "pp_reload", "pp_script", "pp_finally"}

\* positions at which a compositor is executing
ComposingPcs == PhotopeaPcs \cup {"psd_find", "psd_composite", "png", "basic"}

NoAttempts == [c \in 0..NumLayerNames |-> <<>>]

AnySuccess(l) == \E c \in DOMAIN l : \E i \in DOMAIN l[c] : l[c][i].outcome = "success"

\* an attempt as it starts; afterSuccess records whether some attempt of the
\* request had already ended in success at that moment
Attempt(s, after) == [strategy |-> s, outcome |-> "running", afterSuccess |-> after]

Start(l, k, s) == [l EXCEPT ![k] = Append(@, Attempt(s, AnySuccess(l)))]

SetOutcome(l, k, s, o) ==
    [l EXCEPT ![k] =
        [i \in DOMAIN @ |-> IF @[i].strategy = s THEN [@[i] EXCEPT !.outcome = o] ELSE @[i]]]

\* mutant of GMEntry: auto mode enters PSD.js first
GMEntryPsdJsFirst(m, t) ==
    IF t = "none" THEN "basic"
    ELSE IF t = "psd"
         THEN IF m = "photopea" THEN "pp_launch"
              ELSE IF m = "psdjs" \/ m = "auto" THEN "psd_find"
              ELSE "returned"
         ELSE "png"

\* generateMockup up to its first await: the compositor it enters
GMEntry(m, t) ==
    IF t = "none" THEN "basic"
    ELSE IF t = "psd"
         THEN IF m = "photopea" \/ m = "auto" THEN "pp_launch"
              ELSE IF m = "psdjs" THEN "psd_find"
              ELSE "returned"
         ELSE "png"

StrategyOf(pc) ==
    CASE pc = "pp_launch" -> "photopea"
      [] pc = "psd_find"  -> "psdjs"
      [] pc = "png"       -> "png"
      [] pc = "basic"     -> "basic"
      [] OTHER            -> "none"

PInit ==
    /\ mode \in Modes
    /\ tmpl = "unresolved"
    /\ tree = NoTree
    /\ designImagePath = "unset"
    /\ hpc = "findTemplate"
    /\ layerIdx = 1
    /\ mockupPath = "unset"
    /\ mockupError = FALSE
    /\ status = [methodUsed |-> "null", fallbackUsed |-> FALSE]
    /\ response = NoResponse
    /\ task = [k \in Calls |-> IdleTask]
    /\ log = NoAttempts

PUnused ==
    /\ mode = "auto" /\ tmpl = "unresolved" /\ tree = NoTree /\ designImagePath = "unset" /\ hpc = "unused"
    /\ layerIdx = 1 /\ mockupPath = "unset" /\ mockupError = FALSE
    /\ status = [methodUsed |-> "null", fallbackUsed |-> FALSE]
    /\ response = NoResponse /\ task = [k \in Calls |-> IdleTask] /\ log = NoAttempts

\* ---- the handler ----

\* const templatePath = await findTemplateForSku(sku)
FindTemplate ==
    /\ hpc = "findTemplate"
    /\ \E t \in {"psd", "png", "none"} :
          /\ tmpl' = t
          /\ IF t = "psd" THEN tree' \in TemplateTrees ELSE tree' = NoTree
    /\ hpc' = "download"
    /\ UNCHANGED <<xvars, lvars, fvars, dvars, tvars, mode, designImagePath, layerIdx, mockupPath, mockupError, status, response, task, log>>

\* mutant of DownloadDesign: a failed download goes on to the Basic fallback
DownloadDesignFallsBack ==
    /\ hpc = "download"
    /\ \/ designImagePath' = "saved" /\ hpc' = "loop"
       \/ designImagePath' = "error" /\ hpc' = "fallback"
    /\ UNCHANGED <<xvars, lvars, fvars, dvars, tvars, mode, tmpl, tree, layerIdx, mockupPath, mockupError, status,
                   response, task, log>>

\* designImagePath = await downloadDesignImage(imageUrl, jobDir)
DownloadDesign ==
    /\ hpc = "download"
    /\ \/ /\ designImagePath' = "saved"
          /\ hpc' = "loop"
          /\ UNCHANGED response
       \/ /\ designImagePath' = "error"
          /\ hpc' = "done"
          /\ response' = [sent |-> TRUE, success |-> FALSE, mockupUrl |-> "imageUrl",
                          error |-> "download"]
    /\ UNCHANGED <<xvars, lvars, fvars, dvars, tvars, mode, tmpl, tree, layerIdx, mockupPath, mockupError, status, task, log>>

\* one iteration of `for (const layerName of LAYER_NAMES)`: generateMockup is called
StartAttempt ==
    /\ hpc = "loop"
    /\ LET k == layerIdx
           entry == GMEntry(mode, tmpl)
       IN  /\ task' = [task EXCEPT ![k].pc = entry]
           /\ log' = IF StrategyOf(entry) = "none" THEN log
                     ELSE Start(log, k, StrategyOf(entry))
    /\ hpc' = "await"
    /\ UNCHANGED <<xvars, lvars, fvars, dvars, tvars, mode, designImagePath, tmpl, tree, layerIdx, mockupPath, mockupError, status, response>>

\* Promise.race won by generateMockup, which returned: break
AttemptReturned ==
    /\ hpc = "await"
    /\ task[layerIdx].pc = "returned"
    /\ mockupPath' = task[layerIdx].out
    /\ mockupError' = FALSE
    /\ hpc' = "after"
    /\ UNCHANGED <<xvars, lvars, fvars, dvars, tvars, mode, designImagePath, tmpl, tree, layerIdx, status, response, task, log>>

\* Promise.race won by generateMockup, which threw
AttemptThrew ==
    /\ hpc = "await"
    /\ task[layerIdx].pc = "threw"
    /\ mockupError' = TRUE
    /\ hpc' = "delay"
    /\ UNCHANGED <<xvars, lvars, fvars, dvars, tvars, mode, designImagePath, tmpl, tree, layerIdx, mockupPath, status, response, task, log>>

\* Promise.race won by the 3 minute timer: the generateMockup call goes on
AttemptTimedOut ==
    /\ hpc = "await"
    /\ task[layerIdx].pc \notin Settled
    /\ mockupError' = TRUE
    /\ hpc' = "delay"
    /\ UNCHANGED <<xvars, lvars, fvars, dvars, tvars, mode, designImagePath, tmpl, tree, layerIdx, mockupPath, status, response, task, log>>

\* the 500 ms delay, then the next layer name or the end of the loop
NextLayerName ==
    /\ hpc = "delay"
    /\ IF layerIdx < NumLayerNames
       THEN layerIdx' = layerIdx + 1 /\ hpc' = "loop"
       ELSE layerIdx' = layerIdx /\ hpc' = "after"
    /\ UNCHANGED <<xvars, lvars, fvars, dvars, tvars, mode, designImagePath, tmpl, tree, mockupPath, mockupError, status, response, task, log>>

\* processingStatus.methodUsed after a loop that ended without error
MethodUsed(t, m) ==
    IF t = "none" THEN "basic"
    ELSE IF t = "png" THEN "png"
    ELSE IF m = "psdjs" THEN "psdjs"
    ELSE IF m = "photopea" THEN "photopea"
    ELSE "advanced"

\* after the loop: throw mockupError into the fallback, or name the method;
\* path.basename(undefined) throws into the outer catch
AfterLoop ==
    /\ hpc = "after"
    /\ IF mockupError
       THEN /\ hpc' = "fallback"
            /\ UNCHANGED <<status, response>>
       ELSE /\ status' = [status EXCEPT !.methodUsed = MethodUsed(tmpl, mode)]
            /\ hpc' = "done"
            /\ response' =
                 IF mockupPath = "undefined"
                 THEN CatchResponse
                 ELSE [sent |-> TRUE, success |-> TRUE, mockupUrl |-> "mockup", error |-> "none"]
    /\ UNCHANGED <<xvars, lvars, fvars, dvars, tvars, mode, designImagePath, tmpl, tree, layerIdx, mockupPath, mockupError, task, log>>

\* fallbackUsed as the handler's fallback sets it
FallbackFlag == TRUE

\* mutant of HandlerFallback: the last error is answered without a fallback
HandlerNoFallback ==
    /\ hpc = "fallback"
    /\ hpc' = "done"
    /\ response' = [sent |-> TRUE, success |-> FALSE, mockupUrl |-> "imageUrl",
                          error |-> "mockup"]
    /\ UNCHANGED <<xvars, lvars, fvars, dvars, tvars, mode, designImagePath, tmpl, tree, layerIdx, mockupPath, mockupError,
                   status, task, log>>

\* mockupPath = await imageProcessor.generateBasicMockup(designImagePath, ...)
HandlerFallback ==
    /\ hpc = "fallback"
    /\ hpc' = "done"
    /\ \/ /\ mockupPath' = "basic"
          /\ status' = [methodUsed |-> "basic", fallbackUsed |-> FallbackFlag]
          /\ response' = [sent |-> TRUE, success |-> TRUE, mockupUrl |-> "mockup", error |-> "none"]
          /\ log' = SetOutcome(Start(log, 0, "basic"), 0, "basic", "success")
       \/ /\ response' = [sent |-> TRUE, success |-> FALSE, mockupUrl |-> "imageUrl",
                          error |-> "mockup"]
          /\ log' = SetOutcome(Start(log, 0, "basic"), 0, "basic", "fail")
          /\ UNCHANGED <<mockupPath, status>>
    /\ UNCHANGED <<xvars, lvars, fvars, dvars, tvars, mode, designImagePath, tmpl, tree, layerIdx, mockupError, task>>

\* ---- generateMockup call k and its compositors ----

\* mutant of FinallyBrowser: the session is not closed
FinallyBrowserLeak(b) == b

\* finally { if (browser) { await browser.close() } }
FinallyBrowser(b) == IF b # "none" THEN "closed" ELSE b

Fail(k) == [task[k] EXCEPT !.pc = "pp_finally", !.pending = "err"]

\* browser = await puppeteer.launch(...); await browser.version()
PP_Launch(k) ==
    /\ task[k].pc = "pp_launch"
    /\ \/ task' = [task EXCEPT ![k].pc = "pp_goto", ![k].browser = "open"]
       \/ task' = [task EXCEPT ![k] = Fail(k)]
       \/ task' = [task EXCEPT ![k] = [Fail(k) EXCEPT !.browser = "open"]]
    /\ UNCHANGED <<xvars, lvars, fvars, dvars, tvars, mode, designImagePath, tmpl, tree, hpc, layerIdx, mockupPath, mockupError, status, response, log>>

\* browser.newPage(), page.goto('https://www.photopea.com')
PP_Goto(k) ==
    /\ task[k].pc = "pp_goto"
    /\ \/ task' = [task EXCEPT ![k].pc = "pp_check"]
       \/ task' = [task EXCEPT ![k] = Fail(k)]
    /\ UNCHANGED <<xvars, lvars, fvars, dvars, tvars, mode, designImagePath, tmpl, tree, hpc, layerIdx, mockupPath, mockupError, status, response, log>>

\* waitForSelector (its timeout is swallowed), delay, first appAvailable check
PP_Check(k) ==
    /\ task[k].pc = "pp_check"
    /\ \/ task' = [task EXCEPT ![k].pc = "pp_script", ![k].app = "available"]
       \/ task' = [task EXCEPT ![k].pc = "pp_reload", ![k].app = "unavailable"]
       \/ task' = [task EXCEPT ![k] = Fail(k)]
    /\ UNCHANGED <<xvars, lvars, fvars, dvars, tvars, mode, designImagePath, tmpl, tree, hpc, layerIdx, mockupPath, mockupError, status, response, log>>

\* mutant of PP_Reload: an editor still without its API is polled again
PP_ReloadPollsAgain(k) ==
    /\ task[k].pc \in {"pp_reload", "pp_poll"}
    /\ \/ task' = [task EXCEPT ![k].pc = "pp_script", ![k].app = "available"]
       \/ task' = [task EXCEPT ![k].pc = IF task[k].pc = "pp_poll" THEN "pp_reload" ELSE "pp_poll"]
    /\ UNCHANGED <<xvars, lvars, fvars, dvars, tvars, mode, designImagePath, tmpl, tree, hpc, layerIdx, mockupPath,
                   mockupError, status, response, log>>

\* page.reload (60 s timeout), waitForSelector, delay, appAvailableAfterReload;
\* a reload error or an API still not callable throws
PP_Reload(k) ==
    /\ task[k].pc = "pp_reload"
    /\ \/ task' = [task EXCEPT ![k].pc = "pp_script", ![k].app = "available"]
       \/ task' = [task EXCEPT ![k] = Fail(k)]
    /\ UNCHANGED <<xvars, lvars, fvars, dvars, tvars, mode, designImagePath, tmpl, tree, hpc, layerIdx, mockupPath, mockupError, status, response, log>>

\* results of the page script once the insertion layer was found
ScriptResults == {"png", "scriptError", "noPng"}

\* page.evaluate(script), the checks of its result, fs.writeFileSync(outputPath)
PP_Script(k) ==
    /\ task[k].pc = "pp_script"
    /\ LET designLayer == findLayerByName(tree, LAYER_NAMES[k])
       IN  IF designLayer = Null
           THEN task' = [task EXCEPT ![k] = Fail(k)]
           ELSE \E r \in ScriptResults :
                   task' = [task EXCEPT ![k] =
                               IF r = "png"
                               THEN [task[k] EXCEPT !.pc = "pp_finally", !.pending = "ok"]
                               ELSE Fail(k)]
    /\ UNCHANGED <<xvars, lvars, fvars, dvars, tvars, mode, designImagePath, tmpl, tree, hpc, layerIdx, mockupPath, mockupError, status, response, log>>

\* mutant of AfterPhotopeaError: every mode goes on with PSD.js
AfterPhotopeaErrorAnyMode(m) == "psd_find"

\* where generateMockup goes when Photopea threw
AfterPhotopeaError(m) == IF m = "auto" THEN "psd_find" ELSE "threw"

\* the finally block, then generateMockup's return or its catch (photopeaError)
PP_Finally(k) ==
    /\ task[k].pc = "pp_finally"
    /\ IF task[k].pending = "ok"
       THEN /\ task' = [task EXCEPT ![k].pc = "returned", ![k].out = "photopea",
                                    ![k].app = "unchecked",
                                    ![k].browser = FinallyBrowser(task[k].browser)]
            /\ log' = SetOutcome(log, k, "photopea", "success")
       ELSE LET next == AfterPhotopeaError(mode)
            IN  /\ task' = [task EXCEPT ![k].pc = next,
                                        ![k].app = "unchecked",
                                        ![k].browser = FinallyBrowser(task[k].browser)]
                /\ log' = IF next = "psd_find"
                          THEN Start(SetOutcome(log, k, "photopea", "fail"), k, "psdjs")
                          ELSE SetOutcome(log, k, "photopea", "fail")
    /\ UNCHANGED <<xvars, lvars, fvars, dvars, tvars, mode, designImagePath, tmpl, tree, hpc, layerIdx, mockupPath, mockupError, status, response>>

\* where generateMockup goes when PSD.js threw
AfterPsdJsError(m) == IF m = "auto" THEN "basic" ELSE "threw"

PsdJsFailed(k) ==
    LET next == AfterPsdJsError(mode)
    IN  /\ task' = [task EXCEPT ![k].pc = next]
        /\ log' = IF next = "basic"
                  THEN Start(SetOutcome(log, k, "psdjs", "fail"), k, "basic")
                  ELSE SetOutcome(log, k, "psdjs", "fail")

\* PSD.fromFile, psd.parse, findDesignLayer(tree)
PSD_Find(k) ==
    /\ task[k].pc = "psd_find"
    /\ IF findDesignLayer(tree, LAYER_NAMES[k]) = Null
       THEN PsdJsFailed(k)
       ELSE \/ task' = [task EXCEPT ![k].pc = "psd_composite"] /\ UNCHANGED log
            \/ PsdJsFailed(k)
    /\ UNCHANGED <<xvars, lvars, fvars, dvars, tvars, mode, designImagePath, tmpl, tree, hpc, layerIdx, mockupPath, mockupError, status, response>>

\* sharp resize, tree.export, composite, toFile
PSD_Composite(k) ==
    /\ task[k].pc = "psd_composite"
    /\ \/ /\ task' = [task EXCEPT ![k].pc = "returned", ![k].out = "psdjs"]
          /\ log' = SetOutcome(log, k, "psdjs", "success")
       \/ PsdJsFailed(k)
    /\ UNCHANGED <<xvars, lvars, fvars, dvars, tvars, mode, designImagePath, tmpl, tree, hpc, layerIdx, mockupPath, mockupError, status, response>>

\* generateMockupWithPngTemplate
PNG_Composite(k) ==
    /\ task[k].pc = "png"
    /\ \/ /\ task' = [task EXCEPT ![k].pc = "returned", ![k].out = "png"]
          /\ log' = SetOutcome(log, k, "png", "success")
       \/ /\ task' = [task EXCEPT ![k].pc = "threw"]
          /\ log' = SetOutcome(log, k, "png", "fail")
    /\ UNCHANGED <<xvars, lvars, fvars, dvars, tvars, mode, designImagePath, tmpl, tree, hpc, layerIdx, mockupPath, mockupError, status, response>>

\* generateBasicMockup called by generateMockup
GM_Basic(k) ==
    /\ task[k].pc = "basic"
    /\ \/ /\ task' = [task EXCEPT ![k].pc = "returned", ![k].out = "basic"]
          /\ log' = SetOutcome(log, k, "basic", "success")
       \/ /\ task' = [task EXCEPT ![k].pc = "threw"]
          /\ log' = SetOutcome(log, k, "basic", "fail")
    /\ UNCHANGED <<xvars, lvars, fvars, dvars, tvars, mode, designImagePath, tmpl, tree, hpc, layerIdx, mockupPath, mockupError, status, response>>

LUnused ==
    /\ lpc = {"unused"} /\ ltree = NoTree /\ lname = Null /\ lremote = Null /\ llocal = Null

FUnused ==
    /\ remoteCfg = "off" /\ now = 0 /\ req = <<>> /\ touched = <<>>

DUnused ==
    /\ dpc = "unused" /\ urlExt = "" /\ designDir = "path" /\ attempt = 1
    /\ lastError = "null" /\ dlog = <<>> /\ dresult = "none"

NoRaster == [state |-> "none", width |-> 0, height |-> 0, left |-> 0, top |-> 0,
             inputWidth |-> 0, inputHeight |-> 0, drawnWidth |-> 0, drawnHeight |-> 0,
             pixels |-> {}]

RasterIn(kind, dw, dh, tw, th, l, t, lw, lh) ==
    [kind |-> kind, designWidth |-> dw, designHeight |-> dh,
     templateWidth |-> tw, templateHeight |-> th,
     left |-> l, top |-> t, width |-> lw, height |-> lh]

RUnused ==
    /\ rpc = "unused" /\ rin = RasterIn("none", 0, 0, 0, 0, 0, 0, 0, 0) /\ rout = NoRaster
    /\ rprev = NoRaster

SInit ==
    /\ spc = "launch" /\ sidx = 1 /\ strace = <<>> /\ spending = "none" /\ spng = ""

SUnused ==
    /\ spc = "unused" /\ sidx = 1 /\ strace = <<>> /\ spending = "none" /\ spng = ""

UUnused ==
    /\ upc = "unused" /\ ufiles = {} /\ ubefore = {} /\ uver = "part_006" /\ uenv = ""
    /\ uarg = [isArray |-> TRUE, paths |-> <<>>]
    /\ uurl = [base |-> "", path |-> "", file |-> <<>>] /\ userved = "none"

NoPolls == [d \in {"template", "design"} |-> 0]

WInit ==
    /\ wpc = "open" /\ wdoc = "template" /\ wlayers = "missing" /\ wattempts = NoPolls

WUnused ==
    /\ wpc = "unused" /\ wdoc = "template" /\ wlayers = "missing" /\ wattempts = NoPolls

FInitFetch ==
    /\ fpc = "request" /\ fserver \in {"up", "silent"} /\ fattempt = 1
    /\ fstream = "none" /\ fwriter = "none" /\ ferrors = <<>>

FetchUnused ==
    /\ fpc = "unused" /\ fserver = "up" /\ fattempt = 1
    /\ fstream = "none" /\ fwriter = "none" /\ ferrors = <<>>

MaxTokens == 3      \* tokens of a request value

Tokens == {"a", "..", "/"}

\* the values that pass `if (!designId || !sku || !imageUrl)`
RequestStrings == SeqsUpTo(Tokens, MaxTokens) \ {<<>>}

JInit ==
    /\ jpc = "find"
    /\ jsku \in RequestStrings
    /\ jdesignId \in RequestStrings
    /\ jurl \in {"none", "direct", "base"}
    /\ jobDir = <<>>
    /\ jread = {}
    /\ jmade = {}

JUnused ==
    /\ jpc = "unused" /\ jsku = <<"a">> /\ jdesignId = <<"a">> /\ jurl = "none"
    /\ jobDir = <<>> /\ jread = {} /\ jmade = {}

XUnused == RUnused /\ SUnused /\ UUnused /\ WUnused /\ FetchUnused /\ JUnused

TUnused ==
    /\ localFiles = {} /\ templateUrl = "none" /\ remote = "up" /\ tpc = "unused"
    /\ resolves = 0 /\ tresult = Null /\ tempFiles = {} /\ tlog = <<>>

Init == PInit /\ LUnused /\ FUnused /\ DUnused /\ TUnused /\ XUnused

Next ==
    \/ FindTemplate
    \/ DownloadDesign
    \/ StartAttempt
    \/ AttemptReturned
    \/ AttemptThrew
    \/ AttemptTimedOut
    \/ NextLayerName
    \/ AfterLoop
    \/ HandlerFallback
    \/ \E k \in Calls : PP_Launch(k)
    \/ \E k \in Calls : PP_Goto(k)
    \/ \E k \in Calls : PP_Check(k)
    \/ \E k \in Calls : PP_Reload(k)
    \/ \E k \in Calls : PP_Script(k)
    \/ \E k \in Calls : PP_Finally(k)
    \/ \E k \in Calls : PSD_Find(k)
    \/ \E k \in Calls : PSD_Composite(k)
    \/ \E k \in Calls : PNG_Composite(k)
    \/ \E k \in Calls : GM_Basic(k)

Spec == Init /\ [][Next]_vars

\* Every step of the handler and of a compositor awaits an operation that
\* settles: the navigation, reload and selector waits carry 60 s timeouts,
\* the delays are timers, and the handler's wait for a call is raced against
\* its 3 minute timer.
Fairness ==
    /\ WF_vars(FindTemplate) /\ WF_vars(DownloadDesign) /\ WF_vars(StartAttempt)
    /\ WF_vars(AttemptReturned) /\ WF_vars(AttemptThrew) /\ WF_vars(AttemptTimedOut)
    /\ WF_vars(NextLayerName) /\ WF_vars(AfterLoop) /\ WF_vars(HandlerFallback)
    /\ \A k \in Calls :
          /\ WF_vars(PP_Launch(k)) /\ WF_vars(PP_Goto(k)) /\ WF_vars(PP_Check(k))
          /\ WF_vars(PP_Reload(k)) /\ WF_vars(PP_Script(k)) /\ WF_vars(PP_Finally(k))
          /\ WF_vars(PSD_Find(k)) /\ WF_vars(PSD_Composite(k))
          /\ WF_vars(PNG_Composite(k)) /\ WF_vars(GM_Basic(k))

SpecFair == Spec /\ Fairness

(***************************************************************************)
(* The two layer locators applied to the same tree and candidate name.     *)
(***************************************************************************)
LocatorNames == {NameDesign, NameLower, NameDesignHere, NameOther}

LInit ==
    /\ lpc = {}
    /\ ltree \in Trees
    /\ lname \in LocatorNames
    /\ lremote = Null
    /\ llocal = Null

\* const designLayer = findLayerByName(allLayers, designLayerName)
LocateRemote ==
    /\ "remote" \notin lpc
    /\ "unused" \notin lpc
    /\ lremote' = findLayerByName(ltree, lname)
    /\ lpc' = lpc \cup {"remote"}
    /\ UNCHANGED <<xvars, pvars, fvars, dvars, tvars, ltree, lname, llocal>>

\* designLayer = findDesignLayer(tree)
LocateLocal ==
    /\ "local" \notin lpc
    /\ "unused" \notin lpc
    /\ llocal' = findDesignLayer(ltree, lname)
    /\ lpc' = lpc \cup {"local"}
    /\ UNCHANGED <<xvars, pvars, fvars, dvars, tvars, ltree, lname, lremote>>

InitLocator == PUnused /\ LInit /\ FUnused /\ DUnused /\ TUnused /\ XUnused

NextLocator == LocateRemote \/ LocateLocal

SpecLocator == InitLocator /\ [][NextLocator]_vars

(***************************************************************************)
(* Two requests handled concurrently, and the paths each one touches.      *)
(* A path is a tuple of its components below the service directory.        *)
(***************************************************************************)
Requests  == {1, 2}
DesignIds == {"d1", "d2"}
Skus      == {"s1", "s2"}

\* the clock advances at most this many milliseconds while the requests run
MaxClock == 1

IdleReq == [pc |-> "idle", designId |-> "none", sku |-> "none", jobDir |-> <<>>,
            design |-> <<>>, out |-> <<>>]

InFlight(r) == req[r].pc \notin {"idle", "done"}

FInit ==
    /\ remoteCfg \in {"off", "direct", "base"}
    /\ now = 0
    /\ req = [r \in Requests |-> IdleReq]
    /\ touched = [r \in Requests |-> {}]

Tick ==
    /\ now < MaxClock
    /\ now' = now + 1
    /\ UNCHANGED <<xvars, pvars, lvars, dvars, tvars, remoteCfg, req, touched>>

\* const { designId, sku, imageUrl, mode } = req.body
F_Receive(r) ==
    /\ req[r].pc = "idle"
    /\ \E d \in DesignIds, s \in Skus :
          req' = [req EXCEPT ![r] = [IdleReq EXCEPT !.pc = "findTemplate",
                                                    !.designId = d, !.sku = s]]
    /\ UNCHANGED <<xvars, pvars, lvars, dvars, tvars, remoteCfg, now, touched>>

\* the file findTemplateForSku downloads into TEMP_DIR when no local template exists
RemoteTemplatePaths(cfg, sku) ==
    CASE cfg = "direct" -> {<<"temp", "template-", sku, ".psd">>}
      [] cfg = "base"   -> {<<"temp", sku, ".psd">>, <<"temp", "default", ".psd">>}
      [] OTHER          -> {}

\* findTemplateForSku(sku): a local template, or a download into TEMP_DIR
F_FindTemplate(r) ==
    /\ req[r].pc = "findTemplate"
    /\ \/ UNCHANGED touched
       \/ \E p \in RemoteTemplatePaths(remoteCfg, req[r].sku) :
             touched' = [touched EXCEPT ![r] = @ \cup {p}]
    /\ req' = [req EXCEPT ![r].pc = "jobDir"]
    /\ UNCHANGED <<xvars, pvars, lvars, dvars, tvars, remoteCfg, now>>

\* jobId = `${designId}-${sku}-${Date.now()}`; jobDir = path.join(TEMP_DIR, jobId)
JobDir(d, s, t) == <<"temp", d, "-", s, "-", t>>

F_JobDir(r) ==
    /\ req[r].pc = "jobDir"
    /\ LET dir == JobDir(req[r].designId, req[r].sku, now)
       IN  /\ req' = [req EXCEPT ![r].pc = "download", ![r].jobDir = dir]
           /\ touched' = [touched EXCEPT ![r] = @ \cup {dir}]
    /\ UNCHANGED <<xvars, pvars, lvars, dvars, tvars, remoteCfg, now>>

\* downloadDesignImage(imageUrl, jobDir): path.join(outputDir, `design-image${extension}`)
DesignPath(dir) == dir \o <<"design-image", ".png">>

F_Download(r) ==
    /\ req[r].pc = "download"
    /\ LET file == DesignPath(req[r].jobDir)
       IN  /\ touched' = [touched EXCEPT ![r] = @ \cup {file}]
           /\ \/ req' = [req EXCEPT ![r].pc = "compose", ![r].design = file]
              \/ req' = [req EXCEPT ![r].pc = "done"]
    /\ UNCHANGED <<xvars, pvars, lvars, dvars, tvars, remoteCfg, now>>

\* path.join(TEMP_DIR, `mockup-${Date.now()}.png`), `basic-mockup-${Date.now()}.png`
OutputPath(prefix, t) == <<"temp", prefix, t, ".png">>

F_Compose(r) ==
    /\ req[r].pc = "compose"
    /\ \E prefix \in {"mockup-", "basic-mockup-"} :
          LET file == OutputPath(prefix, now)
          IN  /\ req' = [req EXCEPT ![r].pc = "cleanup", ![r].out = file]
              /\ touched' = [touched EXCEPT ![r] = @ \cup {file}]
    /\ UNCHANGED <<xvars, pvars, lvars, dvars, tvars, remoteCfg, now>>

\* await cleanupFiles(designImagePath); res.json(...)
F_Cleanup(r) ==
    /\ req[r].pc = "cleanup"
    /\ req' = [req EXCEPT ![r].pc = "done"]
    /\ touched' = [touched EXCEPT ![r] = @ \cup {req[r].design}]
    /\ UNCHANGED <<xvars, pvars, lvars, dvars, tvars, remoteCfg, now>>

InitFiles == PUnused /\ LUnused /\ FInit /\ DUnused /\ TUnused /\ XUnused

NextFiles ==
    \/ Tick
    \/ \E r \in Requests : F_Receive(r)
    \/ \E r \in Requests : F_FindTemplate(r)
    \/ \E r \in Requests : F_JobDir(r)
    \/ \E r \in Requests : F_Download(r)
    \/ \E r \in Requests : F_Compose(r)
    \/ \E r \in Requests : F_Cleanup(r)

SpecFiles == InitFiles /\ [][NextFiles]_vars

(***************************************************************************)
(* downloadDesignImage(imageUrl, designDir) with its retry loop.           *)
(***************************************************************************)
maxRetries == 3

\* errors downloadFile may reject with
DownloadErrors == {"ETIMEDOUT", "HTTP404"}

UrlExts == {"", ".jpg", ".png"}

DesignDirs == {"id", "path"}

\* path.extname(urlObj.pathname) || '.png'
extension(ext) == IF ext = "" THEN ".png" ELSE ext

\* path.join(outputDir, `design-image${extension}`)
DesignOutputPath(dir, ext) ==
    <<IF dir = "id" THEN "temp/id" ELSE "jobDir", "design-image", extension(ext)>>

DInit ==
    /\ dpc = "start"
    /\ urlExt \in UrlExts
    /\ designDir \in DesignDirs
    /\ attempt = 1
    /\ lastError = "null"
    /\ dlog = <<>>
    /\ dresult = "none"

\* new URL(imageUrl), fs.mkdirSync(outputDir): either may throw before the loop
D_Prepare ==
    /\ dpc = "start"
    /\ \/ dpc' = "try" /\ UNCHANGED dresult
       \/ dpc' = "threw" /\ dresult' = "EPREPARE"
    /\ UNCHANGED <<xvars, pvars, lvars, fvars, tvars, urlExt, designDir, attempt, lastError, dlog>>

\* mutant of ShouldWait: wait after every failed attempt
ShouldWaitAlways(a) == TRUE

\* if (attempt <= maxRetries), evaluated after attempt++
ShouldWait(a) == a <= maxRetries

\* the loop condition, and the throw that follows the loop
LoopOrThrow(a) == IF a <= maxRetries THEN "try" ELSE "threw"

\* one iteration of the while loop: await downloadFile(imageUrl, outputPath)
D_Attempt ==
    /\ dpc = "try"
    /\ \/ /\ dlog' = Append(dlog, "ok")
          /\ dpc' = "returned"
          /\ dresult' = DesignOutputPath(designDir, urlExt)
          /\ UNCHANGED <<attempt, lastError>>
       \/ \E e \in DownloadErrors :
             /\ dlog' = Append(dlog, e)
             /\ lastError' = e
             /\ attempt' = attempt + 1
             /\ IF ShouldWait(attempt + 1)
                THEN dpc' = "wait" /\ UNCHANGED dresult
                ELSE /\ dpc' = LoopOrThrow(attempt + 1)
                     /\ dresult' = IF LoopOrThrow(attempt + 1) = "threw" THEN e ELSE dresult
    /\ UNCHANGED <<xvars, pvars, lvars, fvars, tvars, urlExt, designDir>>

\* await new Promise(resolve => setTimeout(resolve, 1000)), then the loop condition
D_Wait ==
    /\ dpc = "wait"
    /\ dlog' = Append(dlog, "wait")
    /\ dpc' = LoopOrThrow(attempt)
    /\ dresult' = IF LoopOrThrow(attempt) = "threw" THEN lastError ELSE dresult
    /\ UNCHANGED <<xvars, pvars, lvars, fvars, tvars, urlExt, designDir, attempt, lastError>>

InitDownload == PUnused /\ LUnused /\ FUnused /\ DInit /\ TUnused /\ XUnused

NextDownload ==
    \/ D_Prepare
    \/ D_Attempt
    \/ D_Wait

SpecDownload == InitDownload /\ [][NextDownload]_vars

(***************************************************************************)
(* findTemplateForSku(sku): local templates first, then the remote source. *)
(* A path is <<directory, base name, extension>>; the sku is fixed.        *)
(***************************************************************************)
templateFormats == <<".psd", ".png", ".jpg", ".jpeg">>

\* number of findTemplateForSku calls made one after the other
MaxResolves == 2

\* mutant of LocalCandidates: the default templates are looked up first
LocalCandidatesDefaultFirst ==
    [i \in 1..(Len(templateFormats) + Len(templateFormats)) |->
        <<"templates",
          IF i <= Len(templateFormats) THEN "default" ELSE "sku",
          templateFormats[((i - 1) % Len(templateFormats)) + 1]>>]

\* the two loops over templateFormats: `${sku}${format}`, then `default${format}`
LocalCandidates ==
    [i \in 1..(Len(templateFormats) + Len(templateFormats)) |->
        <<"templates",
          IF i <= Len(templateFormats) THEN "sku" ELSE "default",
          templateFormats[((i - 1) % Len(templateFormats)) + 1]>>]

LocalPaths == {<<"templates", b, templateFormats[i]>> :
                  b \in {"sku", "default"}, i \in DOMAIN templateFormats}

\* the first candidate for which fs.existsSync holds, or Null
FirstExisting(cands, files) ==
    IF \E i \in DOMAIN cands : cands[i] \in files
    THEN cands[CHOOSE i \in DOMAIN cands :
                  /\ cands[i] \in files
                  /\ \A j \in 1..(i - 1) : cands[j] \notin files]
    ELSE Null

\* the result of a call that has not returned yet
Pending == <<"pending">>

TemplateUrls == {"none", "direct", "base"}

\* what a GET of the remote source can come to
DownloadOutcomes == {"ok", "empty", "httpError", "networkError", "writeError"}

\* only the direct download passes a timeout to axios.get
HasTimeout(url) == url = "direct"

\* the outcomes of one download: a silent server is cut off by the timeout,
\* or never answers when there is none
Responses(url) ==
    IF remote = "up" THEN DownloadOutcomes
    ELSE IF HasTimeout(url) THEN {"timeout"} ELSE {}

\* fs.writeFileSync(path, response.data)
WriteFile(fs, p, o) ==
    IF o \in {"ok", "empty"} THEN {f \in fs : f[1] # p} \cup {<<p, o>>} ELSE fs

DirectPath == <<"temp", "template-sku", ".psd">>

SkuPath == <<"temp", "sku", ".psd">>

DefaultPath == <<"temp", "default", ".psd">>

TInit ==
    /\ localFiles \in SUBSET LocalPaths
    /\ templateUrl \in TemplateUrls
    /\ remote \in {"up", "silent"}
    /\ tpc = "idle"
    /\ resolves = 0
    /\ tresult = Null
    /\ tempFiles = {}
    /\ tlog = <<>>

\* a call of findTemplateForSku up to its first await
T_Resolve ==
    /\ tpc \in {"idle", "done"}
    /\ resolves < MaxResolves
    /\ resolves' = resolves + 1
    /\ LET local == FirstExisting(LocalCandidates, localFiles)
       IN  IF local # Null THEN tpc' = "done" /\ tresult' = local
           ELSE IF templateUrl = "none" THEN tpc' = "done" /\ tresult' = Null
           ELSE /\ tpc' = IF templateUrl = "direct" THEN "direct" ELSE "baseSku"
                /\ tresult' = Pending
    /\ UNCHANGED <<xvars, pvars, lvars, fvars, dvars, localFiles, templateUrl, remote, tempFiles, tlog>>

Download(url, o) == [resolve |-> resolves, url |-> url, outcome |-> o]

\* axios.get(PSD_TEMPLATE_URL, {timeout: 15000}), writeFileSync, existsSync, statSync
T_Direct ==
    /\ tpc = "direct"
    /\ \E o \in Responses("direct") :
          /\ tlog' = Append(tlog, Download("direct", o))
          /\ tempFiles' = WriteFile(tempFiles, DirectPath, o)
          /\ tresult' = IF o = "ok" THEN DirectPath ELSE Null
    /\ tpc' = "done"
    /\ UNCHANGED <<xvars, pvars, lvars, fvars, dvars, localFiles, templateUrl, remote, resolves>>

\* axios.get(`${PSD_TEMPLATE_URL}/${sku}.psd`), writeFileSync
T_BaseSku ==
    /\ tpc = "baseSku"
    /\ \E o \in Responses("sku") :
          /\ tlog' = Append(tlog, Download("sku", o))
          /\ tempFiles' = WriteFile(tempFiles, SkuPath, o)
          /\ IF o \in {"ok", "empty"}
             THEN tpc' = "done" /\ tresult' = SkuPath
             ELSE tpc' = "baseDefault" /\ UNCHANGED tresult
    /\ UNCHANGED <<xvars, pvars, lvars, fvars, dvars, localFiles, templateUrl, remote, resolves>>

\* axios.get(`${PSD_TEMPLATE_URL}/default.psd`), writeFileSync
T_BaseDefault ==
    /\ tpc = "baseDefault"
    /\ \E o \in Responses("default") :
          /\ tlog' = Append(tlog, Download("default", o))
          /\ tempFiles' = WriteFile(tempFiles, DefaultPath, o)
          /\ tresult' = IF o \in {"ok", "empty"} THEN DefaultPath ELSE Null
    /\ tpc' = "done"
    /\ UNCHANGED <<xvars, pvars, lvars, fvars, dvars, localFiles, templateUrl, remote, resolves>>

InitTemplate == PUnused /\ LUnused /\ FUnused /\ DUnused /\ TInit /\ XUnused

NextTemplate ==
    \/ T_Resolve
    \/ T_Direct
    \/ T_BaseSku
    \/ T_BaseDefault

SpecTemplate == InitTemplate /\ [][NextTemplate]_vars

\* an awaited download settles when the server answers or its timeout fires
SpecTemplateFair ==
    SpecTemplate /\ WF_vars(T_Direct) /\ WF_vars(T_BaseSku) /\ WF_vars(T_BaseDefault)

(***************************************************************************)
(* Geometry of the three sharp-based compositors (SpecRaster): one call,   *)
(* its input sizes and the raster it writes.                               *)
(***************************************************************************)
\* Math.max(metadata.width, 800)
MinCanvas == 800
\* designArea = { left: 50, top: 50, ... }
AreaOffset == 50
\* width: templateWidth - 100, height: templateHeight - 100
AreaInset == 100
\* side of the largest PSD canvas whose pixels are enumerated
MaxCanvas == 3

DesignSizes   == {200, 800, 801, 1000}
TemplateSizes == {100, 101, 800}

Max(a, b) == IF a >= b THEN a ELSE b

BasicInputs ==
    {RasterIn("basic", dw, dh, 0, 0, 0, 0, 0, 0) : dw \in DesignSizes, dh \in DesignSizes}

\* twice canvasWidth = width * 1.5, where width = Math.max(metadata.width, 800)
CanvasTimesTwo(d) == 3 * Max(d, MinCanvas)

\* sharp({ create: { width, height, ... } }) accepts positive integers only
IsInteger(twice) == twice % 2 = 0

\* Math.floor((canvasWidth - metadata.width) / 2)
CenterOffset(twiceCanvas, d) == (twiceCanvas - 2 * d) \div 4

\* a flat template and a design
PngInputs ==
    {RasterIn("png", dw, dh, tw, th, 0, 0, 0, 0) :
        dw \in {200, 801}, dh \in {200, 1000}, tw \in TemplateSizes, th \in TemplateSizes}

\* a PSD canvas and the box of its insertion layer
PsdJsInputs ==
    {RasterIn("psdjs", 200, 200, tw, th, l, t, lw, lh) :
        tw \in 1..MaxCanvas, th \in 1..MaxCanvas,
        l \in 0..(MaxCanvas - 1), t \in 0..(MaxCanvas - 1),
        lw \in 1..MaxCanvas, lh \in 1..MaxCanvas}

\* a / b rounded to the nearest integer
RoundDiv(a, b) == (2 * a + b) \div (2 * b)

\* resize(width, height, { fit: 'contain' }): the image is scaled, keeping its
\* aspect ratio, to the largest size that fits; the rest of the width x height
\* buffer is the transparent background
ContainFit(dw, dh, width, height) ==
    IF dw * height <= dh * width
    THEN [width |-> Max(1, RoundDiv(dw * height, dh)), height |-> height]
    ELSE [width |-> width, height |-> Max(1, RoundDiv(dh * width, dw))]

\* mutant of DesignArea: the region moves when an earlier call left a raster
DesignAreaAfterEarlierCall(templateWidth, templateHeight) ==
    [left |-> AreaOffset + (IF rprev.state = "written" THEN 1 ELSE 0), top |-> AreaOffset,
     width |-> templateWidth - AreaInset, height |-> templateHeight - AreaInset]

\* designArea of generateMockupWithPngTemplate
DesignArea(templateWidth, templateHeight) ==
    [left |-> AreaOffset, top |-> AreaOffset,
     width |-> templateWidth - AreaInset, height |-> templateHeight - AreaInset]

\* mutant of LayerBox: the offsets are exchanged
LayerBoxTransposed(in) ==
    [left |-> in.top, top |-> in.left, width |-> in.width, height |-> in.height]

\* designLayer.get('dimensions') and designLayer.get('coords')
LayerBox(in) ==
    [left |-> in.left, top |-> in.top, width |-> in.width, height |-> in.height]

\* sharp(base).composite([{ input, left, top }]): the input is drawn over the
\* base at the offset, the base keeps its size; a base pixel is <<"t", x, y>>,
\* a pixel of the input <<"d", column, row>>
Composite(baseWidth, baseHeight, box) ==
    {[x |-> x, y |-> y,
      value |-> IF /\ box.left <= x /\ x < box.left + box.width
                   /\ box.top <= y /\ y < box.top + box.height
                THEN <<"d", x - box.left, y - box.top>>
                ELSE <<"t", x, y>>] :
        x \in 0..(baseWidth - 1), y \in 0..(baseHeight - 1)}

RInit ==
    /\ rpc = "start"
    /\ rin \in BasicInputs \cup PngInputs \cup PsdJsInputs
    /\ rprev = NoRaster
    /\ rout = NoRaster

\* generateBasicMockup(designImagePath)
R_Basic ==
    /\ rpc = "start" /\ rin.kind = "basic"
    /\ LET cw2 == CanvasTimesTwo(rin.designWidth)
           ch2 == CanvasTimesTwo(rin.designHeight)
       IN  IF IsInteger(cw2) /\ IsInteger(ch2)
           THEN /\ rpc' = "done"
                /\ rout' = [NoRaster EXCEPT !.state = "written",
                              !.width = cw2 \div 2, !.height = ch2 \div 2,
                              !.left = CenterOffset(cw2, rin.designWidth),
                              !.top = CenterOffset(ch2, rin.designHeight),
                              !.inputWidth = rin.designWidth,
                              !.inputHeight = rin.designHeight,
                              !.drawnWidth = rin.designWidth,
                              !.drawnHeight = rin.designHeight]
           ELSE /\ rpc' = "threw"
                /\ rout' = [NoRaster EXCEPT !.state = "threw"]
    /\ UNCHANGED <<pvars, lvars, fvars, dvars, tvars, pathvars, fetchvars, wvars, svars, uvars, rin, rprev>>

\* generateMockupWithPngTemplate(templatePath, designImagePath); sharp's resize
\* takes positive integers only
R_Png ==
    /\ rpc = "start" /\ rin.kind = "png"
    /\ LET designArea == DesignArea(rin.templateWidth, rin.templateHeight)
           drawn == ContainFit(rin.designWidth, rin.designHeight,
                               designArea.width, designArea.height)
       IN  IF designArea.width > 0 /\ designArea.height > 0
           THEN /\ rpc' = "done"
                /\ rout' = [NoRaster EXCEPT !.state = "written",
                              !.width = rin.templateWidth, !.height = rin.templateHeight,
                              !.left = designArea.left, !.top = designArea.top,
                              !.inputWidth = designArea.width,
                              !.inputHeight = designArea.height,
                              !.drawnWidth = drawn.width, !.drawnHeight = drawn.height]
           ELSE /\ rpc' = "threw"
                /\ rout' = [NoRaster EXCEPT !.state = "threw"]
    /\ UNCHANGED <<pvars, lvars, fvars, dvars, tvars, pathvars, fetchvars, wvars, svars, uvars, rin, rprev>>

\* generateMockupWithPsdJs from the layer found on: resize(width, height,
\* { fit: 'fill' }), tree.export(), composite at (left, top); sharp rejects an
\* input larger than the base, and the base may not be readable as an image
R_PsdJs ==
    /\ rpc = "start" /\ rin.kind = "psdjs"
    /\ LET box == LayerBox(rin)
       IN  \/ /\ box.width <= rin.templateWidth /\ box.height <= rin.templateHeight
              /\ rpc' = "done"
              /\ rout' = [NoRaster EXCEPT !.state = "written",
                            !.width = rin.templateWidth, !.height = rin.templateHeight,
                            !.left = box.left, !.top = box.top,
                            !.inputWidth = box.width, !.inputHeight = box.height,
                            !.drawnWidth = box.width, !.drawnHeight = box.height,
                            !.pixels = Composite(rin.templateWidth, rin.templateHeight, box)]
           \/ /\ rpc' = "threw"
              /\ rout' = [NoRaster EXCEPT !.state = "threw"]
    /\ UNCHANGED <<pvars, lvars, fvars, dvars, tvars, pathvars, fetchvars, wvars, svars, uvars, rin, rprev>>

\* the same compositor is called a second time with the same template and
\* design; what the first call wrote stays on disk
R_Again ==
    /\ rpc \in {"done", "threw"}
    /\ rprev.state = "none"
    /\ rprev' = rout
    /\ rout' = NoRaster
    /\ rpc' = "start"
    /\ UNCHANGED <<pvars, lvars, fvars, dvars, tvars, pathvars, fetchvars, wvars, svars, uvars, rin>>

InitRaster == PUnused /\ LUnused /\ FUnused /\ DUnused /\ TUnused /\ RInit /\ SUnused /\ UUnused /\ WUnused /\ FetchUnused /\ JUnused

NextRaster == R_Basic \/ R_Png \/ R_PsdJs \/ R_Again

SpecRaster == InitRaster /\ [][NextRaster]_vars

(***************************************************************************)
(* One call of generateMockupWithPhotopea, operation by operation          *)
(* (SpecScript).  strace lists the operations the call has invoked.        *)
(***************************************************************************)
\* the statements of the page.evaluate script, in source order
PageScriptExportFirst ==
    <<"openTemplate", "findLayer", "openDesign", "selectAll", "copy", "closeDesign",
      "activateTemplate", "export", "setActiveLayer", "paste", "flatten">>

\* mutant of PageScript: the insertion layer is looked up after the design was copied
PageScriptLocateLate ==
    <<"openTemplate", "openDesign", "selectAll", "copy", "closeDesign",
      "activateTemplate", "findLayer", "setActiveLayer", "paste", "flatten", "export">>

PageScript ==
    <<"openTemplate", "findLayer", "openDesign", "selectAll", "copy", "closeDesign",
      "activateTemplate", "setActiveLayer", "paste", "flatten", "export">>

\* what a statement of the script can return to its caller besides going on:
\* the messages of the early returns, and the catch (err) of the whole script
ScriptErrors(op) ==
    CASE op = "openTemplate" -> {"Failed to open PSD template", "err.message"}
      [] op = "findLayer"    -> {"Design layer not found"}
      [] op = "openDesign"   -> {"Failed to open design image", "err.message"}
      [] OTHER               -> {"err.message"}

\* app.activeDocument.saveToBase64("png")
PngData == {"png", ""}

\* throw inside the try block: control goes to finally with the error pending
SThrow(op, message) ==
    /\ spc' = "finally"
    /\ strace' = Append(strace, op)
    /\ spending' = message
    /\ UNCHANGED <<sidx, spng>>

\* browser = await puppeteer.launch(launchOptions); await browser.version()
S_Launch ==
    /\ spc = "launch"
    /\ \/ spc' = "navigate" /\ strace' = Append(strace, "launch") /\ UNCHANGED <<sidx, spending, spng>>
       \/ spc' = "finally" /\ spending' = "launchError" /\ UNCHANGED <<sidx, strace, spng>>
       \/ SThrow("launch", "launchError")
    /\ UNCHANGED <<pvars, lvars, fvars, dvars, tvars, pathvars, fetchvars, wvars, uvars, rvars>>

\* browser.newPage(), page.setViewport(), page.goto(url, { waitUntil: 'networkidle2' })
S_Navigate ==
    /\ spc = "navigate"
    /\ \/ spc' = "check" /\ strace' = Append(strace, "goto") /\ UNCHANGED <<sidx, spending, spng>>
       \/ SThrow("goto", "Failed to load Photopea")
    /\ UNCHANGED <<pvars, lvars, fvars, dvars, tvars, pathvars, fetchvars, wvars, uvars, rvars>>

\* waitForSelector (its timeout is swallowed), delay(5000), appAvailable
S_Check ==
    /\ spc = "check"
    /\ \/ spc' = "script" /\ strace' = Append(strace, "ready") /\ UNCHANGED <<sidx, spending, spng>>
       \/ spc' = "reload" /\ strace' = Append(strace, "notReady") /\ UNCHANGED <<sidx, spending, spng>>
       \/ SThrow("check", "err.message")
    /\ UNCHANGED <<pvars, lvars, fvars, dvars, tvars, pathvars, fetchvars, wvars, uvars, rvars>>

\* mutant of S_Reload: an editor still not ready is reloaded again
S_ReloadAgain ==
    /\ spc = "reload"
    /\ \/ spc' = "script" /\ strace' = strace \o <<"reload", "ready">>
       \/ spc' = "reload" /\ Len(strace) < 8 /\ strace' = strace \o <<"reload", "notReady">>
    /\ UNCHANGED <<pvars, lvars, fvars, dvars, tvars, pathvars, fetchvars, wvars, uvars, rvars, sidx, spending, spng>>

\* if (!appAvailable): page.reload, waitForSelector, delay(8000),
\* appAvailableAfterReload, throw when it is still false
S_Reload ==
    /\ spc = "reload"
    /\ \/ spc' = "script" /\ strace' = strace \o <<"reload", "ready">>
                          /\ UNCHANGED <<sidx, spending, spng>>
       \/ /\ spc' = "finally" /\ strace' = strace \o <<"reload", "notReady">>
          /\ spending' = "Photopea app not available after reloading"
          /\ UNCHANGED <<sidx, spng>>
       \/ SThrow("reload", "err.message")
    /\ UNCHANGED <<pvars, lvars, fvars, dvars, tvars, pathvars, fetchvars, wvars, uvars, rvars>>

\* one statement of the script passed to page.evaluate; the script returns
\* { success: false, error } from an early return or from its catch, and the
\* caller throws `Photopea script failed: ${error}`
S_ScriptStep ==
    /\ spc = "script"
    /\ LET op == PageScript[sidx]
       IN  \/ /\ strace' = Append(strace, op)
              /\ IF op = "export"
                 THEN \E data \in PngData : spng' = data
                 ELSE UNCHANGED spng
              /\ IF sidx = Len(PageScript)
                 THEN spc' = "write" /\ UNCHANGED sidx
                 ELSE sidx' = sidx + 1 /\ UNCHANGED spc
              /\ UNCHANGED spending
           \/ \E e \in ScriptErrors(op) : SThrow(op, e)
    /\ UNCHANGED <<pvars, lvars, fvars, dvars, tvars, pathvars, fetchvars, wvars, uvars, rvars>>

\* if (!photopeaScript.png) throw; fs.writeFileSync(outputPath, ...); return outputPath
S_Write ==
    /\ spc = "write"
    /\ IF spng = ""
       THEN /\ spc' = "finally" /\ spending' = "Photopea did not return PNG data"
            /\ UNCHANGED <<sidx, strace, spng>>
       ELSE \/ /\ spc' = "finally" /\ strace' = Append(strace, "write")
               /\ spending' = "return"
               /\ UNCHANGED <<sidx, spng>>
            \/ SThrow("write", "err.message")
    /\ UNCHANGED <<pvars, lvars, fvars, dvars, tvars, pathvars, fetchvars, wvars, uvars, rvars>>

\* finally { if (browser) await browser.close() }, then the return or the throw
S_Finally ==
    /\ spc = "finally"
    /\ strace' = IF \E i \in DOMAIN strace : strace[i] = "launch"
                 THEN Append(strace, "close") ELSE strace
    /\ spc' = IF spending = "return" THEN "returned" ELSE "threw"
    /\ UNCHANGED <<pvars, lvars, fvars, dvars, tvars, pathvars, fetchvars, wvars, uvars, rvars, sidx, spending, spng>>

InitScript == PUnused /\ LUnused /\ FUnused /\ DUnused /\ TUnused /\ RUnused /\ SInit /\ UUnused /\ WUnused /\ FetchUnused /\ JUnused

NextScript ==
    \/ S_Launch
    \/ S_Navigate
    \/ S_Check
    \/ S_Reload
    \/ S_ScriptStep
    \/ S_Write
    \/ S_Finally

SpecScript == InitScript /\ [][NextScript]_vars

(***************************************************************************)
(* The end of a successful request: the output file, its URL, the cleanup  *)
(* of the design file, the response and the static route (SpecPublish).    *)
(* A path is the sequence of its characters.                               *)
(***************************************************************************)
DesignFile == <<"j", "/", "d">>     \* designImagePath: <jobDir>/design-image.png
OutputFile == <<"m", "o">>          \* mockupPath: TEMP_DIR/mockup-<ms>.png
OtherFile  == <<"j", "/", "x">>     \* another file of the job directory
StrayFile  == <<"d">>               \* a file whose one-character name occurs in designImagePath

AllFiles == {DesignFile, OutputFile, OtherFile, StrayFile}

\* the values cleanupFiles is called with: a string, or an array of strings
StringArg(p) == [isArray |-> FALSE, paths |-> <<p>>]
ArrayArg(ps) == [isArray |-> TRUE, paths |-> ps]

CleanupArgs ==
    {StringArg(DesignFile), ArrayArg(<<>>), ArrayArg(<<DesignFile>>),
     ArrayArg(<<DesignFile, OtherFile>>)}

\* the two cleanupFiles of the repository
Downloaders == {"downloader.js", "part_006"}

Elements(seq) == {seq[i] : i \in DOMAIN seq}

\* for (const filePath of filePaths): the elements of an array, the
\* characters of a string
Iterated(arg) ==
    IF arg.isArray THEN Elements(arg.paths)
    ELSE {<<c>> : c \in Elements(arg.paths[1])}

\* const paths = Array.isArray(filePaths) ? filePaths : [filePaths]
Wrapped(arg) == Elements(arg.paths)

\* the paths cleanupFiles passes to fs.existsSync and fs.unlinkSync
cleanupTargets(version, arg) ==
    IF version = "part_006" THEN Wrapped(arg) ELSE Iterated(arg)

\* if (fs.existsSync(filePath)) fs.unlinkSync(filePath), for each path
cleanupFiles(version, arg, files) == files \ cleanupTargets(version, arg)

\* process.env.PUBLIC_PATH
PublicPathEnv == {"", "/mockups", "/files"}

\* const PUBLIC_PATH = process.env.PUBLIC_PATH || '/mockups'
PUBLIC_PATH(env) == IF env = "" THEN "/mockups" ELSE env

\* app.use('/mockups', express.static(TEMP_DIR))
StaticMount == "/mockups"

NoUrl == [base |-> "", path |-> "", file |-> <<>>]

\* `${BASE_URL}${PUBLIC_PATH}/${path.basename(mockupPath)}`
MockupUrl(env, file) == [base |-> "BASE_URL", path |-> PUBLIC_PATH(env), file |-> file]

\* GET of a URL's path: express.static answers below its mount point with the
\* file of that name in TEMP_DIR, every other path is 404
StaticGet(url, files) ==
    IF url.path = StaticMount /\ url.file \in files THEN "200" ELSE "404"

UInit ==
    /\ uver \in Downloaders
    /\ uenv \in PublicPathEnv
    /\ \/ /\ upc = "compose"
          /\ uarg = StringArg(DesignFile)
          /\ ufiles \in {{DesignFile} \cup s : s \in SUBSET {OtherFile, StrayFile}}
       \/ /\ upc = "call"
          /\ uarg \in CleanupArgs
          /\ ufiles \in SUBSET AllFiles
    /\ ubefore = ufiles
    /\ uurl = NoUrl
    /\ userved = "none"

\* a compositor writes mockupPath; mockupUrl is formed (server.js 640-641)
U_Compose ==
    /\ upc = "compose"
    /\ ufiles' = ufiles \cup {OutputFile}
    /\ uurl' = MockupUrl(uenv, OutputFile)
    /\ upc' = "cleanup"
    /\ UNCHANGED <<pvars, lvars, fvars, dvars, tvars, pathvars, fetchvars, wvars, rvars, svars, uver, uenv, uarg, ubefore, userved>>

\* await cleanupFiles(designImagePath) in the handler, or a call of its own
U_Cleanup ==
    /\ upc \in {"cleanup", "call"}
    /\ ubefore' = ufiles
    /\ ufiles' = cleanupFiles(uver, uarg, ufiles)
    /\ upc' = IF upc = "cleanup" THEN "respond" ELSE "called"
    /\ UNCHANGED <<pvars, lvars, fvars, dvars, tvars, pathvars, fetchvars, wvars, rvars, svars, uver, uenv, uarg, uurl, userved>>

\* return res.json({ success: true, mockupUrl, ... })
U_Respond ==
    /\ upc = "respond"
    /\ upc' = "responded"
    /\ UNCHANGED <<pvars, lvars, fvars, dvars, tvars, pathvars, fetchvars, wvars, rvars, svars, uver, uenv, uarg, ufiles, ubefore, uurl, userved>>

\* the caller fetches mockupUrl
U_Get ==
    /\ upc = "responded"
    /\ userved' = StaticGet(uurl, ufiles)
    /\ upc' = "fetched"
    /\ UNCHANGED <<pvars, lvars, fvars, dvars, tvars, pathvars, fetchvars, wvars, rvars, svars, uver, uenv, uarg, ufiles, ubefore, uurl>>

InitPublish == PUnused /\ LUnused /\ FUnused /\ DUnused /\ TUnused /\ RUnused /\ SUnused /\ UInit /\ WUnused /\ FetchUnused /\ JUnused

NextPublish == U_Compose \/ U_Cleanup \/ U_Respond \/ U_Get

SpecPublish == InitPublish /\ [][NextPublish]_vars

(***************************************************************************)
(* waitForDocument(doc) of the page script in src/unnamed/part_005, called *)
(* for the template and then for the design (SpecWait).                    *)
(***************************************************************************)
\* waitForDocument(doc, maxAttempts = 10, delay = 200)
maxAttempts == 10

LayerStates == {"missing", "empty", "nonempty"}

\* the editor goes on loading a document between two checks
LoadsTo(l) ==
    CASE l = "missing" -> {"empty", "nonempty"}
      [] l = "empty"   -> {"nonempty"}
      [] OTHER         -> {}

\* mutant of Exhausted: one more check is scheduled after the last one
ExhaustedLate(a) == a > maxAttempts

\* else if (attempts >= maxAttempts)
Exhausted(a) == a >= maxAttempts

\* const psdDoc = app.open(psdBuffer) / const designDoc = app.open(designBuffer),
\* then waitForDocument(doc): let attempts = 0; checkDocument()
W_Open ==
    /\ wpc = "open"
    /\ wlayers' \in LayerStates
    /\ wattempts' = [wattempts EXCEPT ![wdoc] = 0]
    /\ wpc' = "check"
    /\ UNCHANGED <<pvars, lvars, fvars, dvars, tvars, pathvars, fetchvars, rvars, svars, uvars, wdoc>>

\* the document's layers appear while a check is scheduled (setTimeout)
W_Load ==
    /\ wpc = "check" /\ wattempts[wdoc] > 0
    /\ wlayers' \in LoadsTo(wlayers)
    /\ UNCHANGED <<pvars, lvars, fvars, dvars, tvars, pathvars, fetchvars, rvars, svars, uvars, wpc, wdoc, wattempts>>

\* checkDocument(): attempts++, resolve on a non-empty layer list, reject when
\* attempts >= maxAttempts, else setTimeout(checkDocument, delay); the
\* template's .then() opens the design and waits for it
W_Check ==
    /\ wpc = "check"
    /\ wattempts' = [wattempts EXCEPT ![wdoc] = @ + 1]
    /\ IF wlayers = "nonempty"
       THEN IF wdoc = "template"
            THEN wpc' = "open" /\ wdoc' = "design"
            ELSE wpc' = "resolved" /\ UNCHANGED wdoc
       ELSE /\ wpc' = IF Exhausted(wattempts'[wdoc]) THEN "rejected" ELSE "check"
            /\ UNCHANGED wdoc
    /\ UNCHANGED <<pvars, lvars, fvars, dvars, tvars, pathvars, fetchvars, rvars, svars, uvars, wlayers>>

InitWait == PUnused /\ LUnused /\ FUnused /\ DUnused /\ TUnused /\ RUnused /\ SUnused /\ UUnused /\ WInit /\ FetchUnused /\ JUnused

NextWait == W_Open \/ W_Load \/ W_Check

SpecWait == InitWait /\ [][NextWait]_vars

(***************************************************************************)
(* downloadFile(url, outputPath) as downloadDesignImage calls it: the      *)
(* axios request, the pipe into the write stream, and the promise that     *)
(* settles on the writer's 'finish' or 'error' (SpecFetch).                *)
(***************************************************************************)
\* what makes `await axios({ method: 'GET', url, responseType: 'stream' })` reject
RequestErrors == {"ETIMEDOUT", "HTTP404"}

\* attempt++; while (attempt <= maxRetries) ...; throw lastError
RetryOrThrow(a) == IF a + 1 <= maxRetries THEN "wait" ELSE "threw"

\* catch (error) of the loop: lastError = error; attempt++; wait or leave the loop
AttemptFailed(e) ==
    /\ ferrors' = Append(ferrors, e)
    /\ fpc' = RetryOrThrow(fattempt)
    /\ fattempt' = fattempt + 1

\* the request is answered: fs.createWriteStream(outputPath), response.data.pipe(writer),
\* return new Promise(...)
E_Answer ==
    /\ fpc = "request" /\ fserver = "up"
    /\ fpc' = "piping" /\ fstream' = "flowing" /\ fwriter' = "open"
    /\ UNCHANGED <<pvars, lvars, fvars, dvars, tvars, pathvars, rvars, svars, uvars, wvars, fserver, fattempt, ferrors>>

\* axios rejects; downloadFile's catch rethrows
E_Reject ==
    /\ fpc = "request" /\ fserver = "up"
    /\ \E e \in RequestErrors : AttemptFailed(e)
    /\ UNCHANGED <<pvars, lvars, fvars, dvars, tvars, pathvars, rvars, svars, uvars, wvars, fserver, fstream, fwriter>>

\* what happens to the response stream while it is piped: it ends (pipe calls
\* writer.end()), it emits 'error' (pipe unpipes, nobody listens), or no more
\* data arrives
E_Stream ==
    /\ fpc = "piping" /\ fstream = "flowing" /\ fwriter = "open"
    /\ fstream' \in {"ended", "errored", "stalled"}
    /\ UNCHANGED <<pvars, lvars, fvars, dvars, tvars, pathvars, rvars, svars, uvars, wvars, fpc, fserver, fattempt, fwriter, ferrors>>

\* writer.on('finish', () => resolve(outputPath)); downloadDesignImage returns outputPath
F_Finish ==
    /\ fpc = "piping" /\ fstream = "ended" /\ fwriter = "open"
    /\ fwriter' = "finished"
    /\ fpc' = "returned"
    /\ UNCHANGED <<pvars, lvars, fvars, dvars, tvars, pathvars, rvars, svars, uvars, wvars, fserver, fattempt, fstream, ferrors>>

\* writer.on('error', reject): the file cannot be written
F_WriterError ==
    /\ fpc = "piping" /\ fwriter = "open" /\ fstream \in {"flowing", "ended"}
    /\ fwriter' = "errored"
    /\ AttemptFailed("EWRITE")
    /\ UNCHANGED <<pvars, lvars, fvars, dvars, tvars, pathvars, rvars, svars, uvars, wvars, fserver, fstream>>

\* await new Promise(resolve => setTimeout(resolve, 1000)), then the next attempt
F_Wait ==
    /\ fpc = "wait"
    /\ fpc' = "request" /\ fstream' = "none" /\ fwriter' = "none"
    /\ UNCHANGED <<pvars, lvars, fvars, dvars, tvars, pathvars, rvars, svars, uvars, wvars, fserver, fattempt, ferrors>>

InitFetch == PUnused /\ LUnused /\ FUnused /\ DUnused /\ TUnused /\ RUnused /\ SUnused /\ UUnused /\ WUnused /\ FInitFetch /\ JUnused

NextFetch == E_Answer \/ E_Reject \/ E_Stream \/ F_Finish \/ F_WriterError \/ F_Wait

SpecFetch == InitFetch /\ [][NextFetch]_vars

\* every step that is possible is eventually taken; a server that is up
\* eventually answers or refuses, a stream eventually ends, errors or stalls
FetchFairness ==
    /\ WF_vars(E_Answer \/ E_Reject) /\ WF_vars(E_Stream)
    /\ WF_vars(F_Finish \/ F_WriterError) /\ WF_vars(F_Wait)

SpecFetchFair == SpecFetch /\ FetchFairness

(***************************************************************************)
(* The paths one render request builds from sku and designId: the local    *)
(* template candidates, the downloaded template, the job directory and the *)
(* design copy (SpecPaths).  A string is a sequence of tokens: "/" is the   *)
(* separator, ".." is two dots, every other token is text without either.  *)
(* A path is the sequence of its segments from the filesystem root.        *)
(***************************************************************************)
\* path.join(__dirname, '..', 'assets', 'templates')
TEMPLATES_DIR == <<(<<"app">>), (<<"assets">>), (<<"templates">>)>>

\* path.join(__dirname, '..', 'temp')
TEMP_DIR == <<(<<"app">>), (<<"temp">>)>>

\* the segments of a string between its separators
RECURSIVE Segments(_)
Segments(s) ==
    IF s = <<>> THEN <<(<<>>)>>
    ELSE LET rest == Segments(Tail(s))
         IN  IF Head(s) = "/" THEN <<(<<>>)>> \o rest
             ELSE <<(<<Head(s)>> \o Head(rest))>> \o Tail(rest)

\* path.normalize: an empty segment is dropped, a ".." segment removes the
\* segment before it
RECURSIVE Resolve(_, _)
Resolve(dir, segs) ==
    IF segs = <<>> THEN dir
    ELSE LET seg == Head(segs)
             next == IF seg = <<>> THEN dir
                     ELSE IF seg = <<"..">>
                          THEN (IF dir = <<>> THEN dir ELSE SubSeq(dir, 1, Len(dir) - 1))
                          ELSE Append(dir, seg)
         IN  Resolve(next, Tail(segs))

\* path.join(dir, s) for an absolute, normalized dir
join(dir, s) == Resolve(dir, Segments(s))

\* path.dirname
dirname(p) == IF p = <<>> THEN p ELSE SubSeq(p, 1, Len(p) - 1)

\* p is dir or lies below it
Inside(dir, p) == Len(p) >= Len(dir) /\ SubSeq(p, 1, Len(dir)) = dir

\* the directories that exist before the request: the two directories and
\* their ancestors
ExistingDirs ==
    {SubSeq(TEMPLATES_DIR, 1, n) : n \in 0..Len(TEMPLATES_DIR)}
        \cup {SubSeq(TEMP_DIR, 1, n) : n \in 0..Len(TEMP_DIR)}

\* path.join(TEMPLATES_DIR, `${sku}${format}`) and path.join(TEMPLATES_DIR, `default${format}`)
TemplateCandidates(sku) ==
    {join(TEMPLATES_DIR, Append(sku, templateFormats[i])) : i \in DOMAIN templateFormats}
        \cup {join(TEMPLATES_DIR, <<"default", templateFormats[i]>>) : i \in DOMAIN templateFormats}

\* path.join(TEMP_DIR, `template-${sku}.psd`)
DirectTemplatePath(sku) == join(TEMP_DIR, <<"template-">> \o sku \o <<".psd">>)

\* path.join(TEMP_DIR, `${sku}.psd`)
BaseTemplatePath(sku) == join(TEMP_DIR, Append(sku, ".psd"))

\* path.join(TEMP_DIR, `default.psd`)
DefaultTemplatePath == join(TEMP_DIR, <<"default", ".psd">>)

\* jobId = `${designId}-${sku}-${Date.now()}`; jobDir = path.join(TEMP_DIR, jobId)
JobPath(designId, sku) == join(TEMP_DIR, designId \o <<"-">> \o sku \o <<"-", "now">>)

\* outputPath = path.join(outputDir, filename), outputDir being the job directory
DesignCopyPath(dir) == join(dir, <<"design-image", ".png">>)

\* fs.writeFileSync(p, data) creates p when its directory exists and throws otherwise
Written(made, p) == IF dirname(p) \in ExistingDirs \cup made THEN made \cup {p} ELSE made

\* findTemplateForSku: one of the local candidates exists and is returned
J_Local ==
    /\ jpc = "find"
    /\ \E p \in TemplateCandidates(jsku) : jread' = {p}
    /\ jpc' = "job"
    /\ UNCHANGED <<pvars, lvars, fvars, dvars, tvars, rvars, svars, uvars, wvars, fetchvars, jsku, jdesignId, jurl, jobDir, jmade>>

\* findTemplateForSku: no local candidate exists
J_NoLocal ==
    /\ jpc = "find"
    /\ jpc' = IF jurl = "none" THEN "job" ELSE "remote"
    /\ UNCHANGED <<pvars, lvars, fvars, dvars, tvars, rvars, svars, uvars, wvars, fetchvars, jsku, jdesignId, jurl, jobDir, jread, jmade>>

\* findTemplateForSku: PSD_TEMPLATE_URL is a .psd file; the download answers or fails
J_Direct ==
    /\ jpc = "remote" /\ jurl = "direct"
    /\ \E answered \in BOOLEAN :
          jmade' = IF answered THEN Written(jmade, DirectTemplatePath(jsku)) ELSE jmade
    /\ jpc' = "job"
    /\ UNCHANGED <<pvars, lvars, fvars, dvars, tvars, rvars, svars, uvars, wvars, fetchvars, jsku, jdesignId, jurl, jobDir, jread>>

\* findTemplateForSku: PSD_TEMPLATE_URL is a base URL; `${sku}.psd`, then default.psd
J_Base ==
    /\ jpc = "remote" /\ jurl = "base"
    /\ \E skuAnswered, defaultAnswered \in BOOLEAN :
          LET bySku == Written(jmade, BaseTemplatePath(jsku))
          IN  jmade' = IF skuAnswered /\ bySku # jmade THEN bySku
                       ELSE IF defaultAnswered THEN Written(jmade, DefaultTemplatePath)
                       ELSE jmade
    /\ jpc' = "job"
    /\ UNCHANGED <<pvars, lvars, fvars, dvars, tvars, rvars, svars, uvars, wvars, fetchvars, jsku, jdesignId, jurl, jobDir, jread>>

\* the handler: jobDir = path.join(TEMP_DIR, jobId); fs.mkdirSync(jobDir, { recursive: true })
J_JobDir ==
    /\ jpc = "job"
    /\ jobDir' = JobPath(jdesignId, jsku)
    /\ jmade' = jmade \cup {JobPath(jdesignId, jsku)}
    /\ jpc' = "design"
    /\ UNCHANGED <<pvars, lvars, fvars, dvars, tvars, rvars, svars, uvars, wvars, fetchvars, jsku, jdesignId, jurl, jread>>

\* downloadDesignImage(imageUrl, jobDir): the copy is written or the download fails
J_Design ==
    /\ jpc = "design"
    /\ \E downloaded \in BOOLEAN :
          jmade' = IF downloaded THEN Written(jmade, DesignCopyPath(jobDir)) ELSE jmade
    /\ jpc' = "done"
    /\ UNCHANGED <<pvars, lvars, fvars, dvars, tvars, rvars, svars, uvars, wvars, fetchvars, jsku, jdesignId, jurl, jobDir, jread>>

InitPaths == PUnused /\ LUnused /\ FUnused /\ DUnused /\ TUnused /\ RUnused /\ SUnused /\ UUnused /\ WUnused /\ FetchUnused /\ JInit

NextPaths == J_Local \/ J_NoLocal \/ J_Direct \/ J_Base \/ J_JobDir \/ J_Design

SpecPaths == InitPaths /\ [][NextPaths]_vars

(***************************************************************************)
(* Properties of one render request (Spec).                                *)
(***************************************************************************)
PinnedModes == {"photopea", "psdjs"}

\* an attempt is identified by its call and its position in the call's log
AttemptIds == UNION {{<<c, i>> : i \in DOMAIN log[c]} : c \in DOMAIN log}

At(id) == log[id[1]][id[2]]

\* the attempts made with a template strategy of a PSD template
StrategyAttempts == {id \in AttemptIds : At(id).strategy \in {"photopea", "psdjs"}}

\* the attempts made with any template strategy
TemplateAttempts == {id \in AttemptIds : At(id).strategy # "basic"}

BasicInvoked == \E id \in AttemptIds : At(id).strategy = "basic"

AllFailed(attempts) == \A id \in attempts : At(id).outcome = "fail"

NumStrategies(m) == IF m = "auto" THEN 2 ELSE 1

Responded == response.sent

\* C1: with a PSD template and every strategy attempt failing, the Basic
\* Fallback Compositor is invoked only after exactly N x S strategy attempts
\* (S = 2 in auto mode, 1 in a pinned mode), and the result then carries
\* fallbackUsed = true.
C1_AttemptsBeforeFallback ==
    (/\ tmpl = "psd"
     /\ mode \in PinnedModes \cup {"auto"}
     /\ BasicInvoked
     /\ AllFailed(StrategyAttempts))
    => /\ Cardinality(StrategyAttempts) = NumLayerNames * NumStrategies(mode)
       /\ (Responded /\ response.success) => status.fallbackUsed

\* the handler gave up on call k (its race was lost to the timer) while the
\* call itself goes on
Abandoned(k) == task[k].pc \in ComposingPcs /\ ~(hpc = "await" /\ layerIdx = k)

\* an attempt the orchestrator counts as failed: it threw, or it timed out
EndedInFailure(id) ==
    \/ At(id).outcome = "fail"
    \/ At(id).outcome = "running" /\ Abandoned(id[1])

\* C2: in every run that produced a result, either exactly one template
\* attempt ended in success, no attempt was started after it and the result is
\* its output, or every attempt ended in failure (threw or timed out) and the
\* result is the Basic Fallback's.
C2_OneSuccessOrFallback ==
    (Responded /\ response.success)
    => \/ \E w \in TemplateAttempts :
             /\ At(w).outcome = "success"
             /\ \A o \in TemplateAttempts \ {w} : At(o).outcome # "success"
             /\ \A o \in TemplateAttempts : ~At(o).afterSuccess
             /\ mockupPath = At(w).strategy
       \/ /\ \A id \in TemplateAttempts : EndedInFailure(id)
          /\ mockupPath = "basic"

Composing == {k \in Calls : task[k].pc \in ComposingPcs}

OpenSessions == {k \in Calls : task[k].browser = "open"}

\* C3: at most one composition attempt and at most one browser session of the
\* request exist at any time, and none is left running when the response is
\* produced.
C3_OneAttemptAtATime ==
    /\ Cardinality(Composing) <= 1
    /\ Cardinality(OpenSessions) <= 1
    /\ Responded => Composing = {}

\* C4: a browser session launched by generateMockupWithPhotopea is open only
\* while that call is still inside the function: once the call has returned or
\* thrown, on whatever path, the session has been closed.
C4_SessionClosedOnExit ==
    \A k \in Calls : task[k].browser = "open" => task[k].pc \in PhotopeaPcs

\* a Photopea call that launched a session, failed and has thrown
C4_Witness ==
    \E k \in Calls : task[k].pc = "threw" /\ task[k].browser = "closed"

\* C8: in a pinned mode with a PSD template, when the pinned strategy failed
\* for every layer name the handler runs the Basic Fallback Compositor, and the
\* request succeeds with its image whenever that compositor produced one.
C8_PinnedFallsBackToBasic ==
    (/\ hpc = "done"
     /\ tmpl = "psd"
     /\ mode \in PinnedModes
     /\ mockupError)
    => /\ Cardinality(StrategyAttempts) = NumLayerNames
       /\ Len(log[0]) = 1
       /\ log[0][1].strategy = "basic"
       /\ (log[0][1].outcome = "success")
             => (response.success /\ response.mockupUrl = "mockup" /\ mockupPath = "basic")
       /\ response.success => (log[0][1].outcome = "success")

\* every layer name failed with the pinned strategy and the request succeeded
C8_Witness ==
    /\ hpc = "done" /\ tmpl = "psd" /\ mode \in PinnedModes /\ mockupError
    /\ AllFailed(StrategyAttempts)
    /\ response.success /\ mockupPath = "basic"

\* C9: fallbackUsed is true exactly when the returned image was produced by
\* the Basic Fallback Compositor.
C9_FallbackFlagExact ==
    (Responded /\ response.success) => (status.fallbackUsed <=> mockupPath = "basic")

C11_PsdJsBeforePhotopea ==
    (mode = "auto" /\ tmpl = "psd")
    => \A c \in Calls : \A j \in DOMAIN log[c] :
          log[c][j].strategy = "photopea"
          => \E i \in 1..(j - 1) :
                /\ log[c][i].strategy = "psdjs"
                /\ log[c][i].outcome = "fail"

\* C12: in mode psdjs no Photopea attempt is made and no browser session is
\* launched; in mode photopea no PSD.js attempt is made.
C12_PinnedSkipsOther ==
    /\ mode = "psdjs"
       => /\ \A id \in AttemptIds : At(id).strategy # "photopea"
          /\ \A k \in Calls : task[k].browser = "none" /\ task[k].pc \notin PhotopeaPcs
    /\ mode = "photopea"
       => /\ \A id \in AttemptIds : At(id).strategy # "psdjs"
          /\ \A k \in Calls : task[k].pc \notin {"psd_find", "psd_composite"}

\* a pinned mode in which the pinned strategy failed for every layer name
C12_Witness ==
    /\ mode \in PinnedModes /\ tmpl = "psd" /\ hpc = "done"
    /\ Cardinality(StrategyAttempts) = NumLayerNames
    /\ AllFailed(StrategyAttempts)

\* the handler-level Basic Fallback Compositor was run and failed
BasicFallbackFailed == \E i \in DOMAIN log[0] : log[0][i].outcome = "fail"

\* C13: a request with its required fields ends with success = false only if
\* the design image could not be fetched or the Basic Fallback Compositor
\* itself failed.
C13_FailsOnlyOnFetchOrBasic ==
    (Responded /\ ~response.success)
    => (designImagePath = "error" \/ BasicFallbackFailed)

\* C14: when fetching the design image failed, no compositor was invoked and
\* the response is success = false with the request's imageUrl as mockupUrl.
C14_FetchFailureIsFatal ==
    designImagePath = "error"
    => /\ AttemptIds = {}
       /\ \A k \in Calls : task[k] = IdleTask
       /\ Responded /\ ~response.success /\ response.mockupUrl = "imageUrl"

\* the design download threw
C14_Witness == designImagePath = "error" /\ hpc = "done"

\* the Photopea attempt of call k ended in failure with its session closed
PhotopeaFailedClosed(k) ==
    /\ task[k].pc \notin PhotopeaPcs
    /\ task[k].browser = "closed"
    /\ \E i \in DOMAIN log[k] : log[k][i].strategy = "photopea" /\ log[k][i].outcome = "fail"

\* the editor of call k has no callable API
EditorUnavailable(k) == task[k].app = "unavailable"

\* the handler is waiting for call k in its Promise.race
HandlerWaitsOn(k) == hpc = "await" /\ layerIdx = k

\* C16: a Photopea attempt whose editor API is not callable either finds it
\* callable after the reload or ends in failure with its browser session
\* closed; the handler stops waiting for that call, and the request is
\* answered.
C16_UnavailableEditorTerminates ==
    /\ \A k \in Calls :
          EditorUnavailable(k) ~> (task[k].app = "available" \/ PhotopeaFailedClosed(k))
    /\ \A k \in Calls : EditorUnavailable(k) ~> ~HandlerWaitsOn(k)
    /\ \A k \in Calls : EditorUnavailable(k) ~> (Responded /\ hpc = "done")

\* the API was still not callable after the reload and the attempt has thrown
C16_Witness ==
    \E k \in Calls :
        EditorUnavailable(k) /\ task[k].pc = "pp_finally" /\ task[k].pending = "err"

(***************************************************************************)
(* Properties of downloadDesignImage (SpecDownload).                       *)
(***************************************************************************)
\* positions of dlog at which downloadFile was called
DownloadAttempts == {i \in DOMAIN dlog : dlog[i] # "wait"}

FailedAttempts == {i \in DOMAIN dlog : dlog[i] \in DownloadErrors}

\* C15: downloadDesignImage calls downloadFile at most 3 times, makes no
\* further step after a successful call, waits only between two consecutive
\* calls (never after the last one), and after 3 failed calls throws the
\* error of the last call.
C15_BoundedRetries ==
    /\ Cardinality(DownloadAttempts) <= 3
    /\ \A i \in DOMAIN dlog :
          dlog[i] = "ok" => (i = Len(dlog) /\ dpc = "returned")
    /\ \A i \in DOMAIN dlog :
          dlog[i] = "wait"
          => /\ i > 1 /\ dlog[i - 1] \in DownloadErrors
             /\ IF i < Len(dlog) THEN dlog[i + 1] # "wait" ELSE dpc = "try"
    /\ Cardinality(FailedAttempts) = 3
          => (dpc = "threw" /\ dresult = dlog[Len(dlog)] /\ dresult \in DownloadErrors)

\* three failed downloads, the last with another error than the first
C15_Witness ==
    /\ dpc = "threw"
    /\ Cardinality(FailedAttempts) = 3
    /\ dlog[1] # dlog[Len(dlog)]

(***************************************************************************)
(* Properties of findTemplateForSku (SpecTemplate, SpecTemplateFair).      *)
(***************************************************************************)
\* the downloads issued by the current call
DownloadsOfCall == SelectSeq(tlog, LAMBDA d : d.resolve = resolves)

DownloadErrorOutcomes == {"httpError", "networkError", "writeError", "timeout"}

\* C17: a finished call returns the first existing local file in the order
\* sku.psd, sku.png, sku.jpg, sku.jpeg, default.psd, default.png, default.jpg,
\* default.jpeg; a download is issued only when none of them exists; and the
\* call returns null when no local file exists and the remote source is not
\* configured or its last download ended in an error.
C17_LocalOrderThenRemote ==
    tpc = "done"
    => /\ localFiles # {}
          => tresult = FirstExisting(
                 << <<"templates", "sku", ".psd">>, <<"templates", "sku", ".png">>,
                    <<"templates", "sku", ".jpg">>, <<"templates", "sku", ".jpeg">>,
                    <<"templates", "default", ".psd">>, <<"templates", "default", ".png">>,
                    <<"templates", "default", ".jpg">>, <<"templates", "default", ".jpeg">> >>,
                 localFiles)
       /\ tlog # <<>> => localFiles = {}
       /\ (localFiles = {} /\ templateUrl = "none") => tresult = Null
       /\ (DownloadsOfCall # <<>>
             /\ DownloadsOfCall[Len(DownloadsOfCall)].outcome \in DownloadErrorOutcomes)
          => tresult = Null

\* a raster template of the sku is preferred to the default PSD template
C17_Witness ==
    /\ tpc = "done"
    /\ {<<"templates", "sku", ".png">>, <<"templates", "default", ".psd">>} \subseteq localFiles
    /\ tresult = <<"templates", "sku", ".png">>

\* C18: a call whose last remote download failed (network error, HTTP error,
\* empty file, write error, timeout) returns null.
C18_DownloadFailureGivesNull ==
    (tpc = "done" /\ DownloadsOfCall # <<>>
       /\ DownloadsOfCall[Len(DownloadsOfCall)].outcome # "ok")
    => tresult = Null

\* C19: a call that awaits a remote download returns.
C19_ResolveTerminates ==
    (tpc \in {"direct", "baseSku", "baseDefault"}) ~> (tpc = "done")

\* C20: once a download of the direct source was stored, no later call
\* downloads it again.
C20_DirectDownloadedOnce ==
    \A i, j \in DOMAIN tlog :
        (i < j /\ tlog[i].url = "direct" /\ tlog[i].outcome = "ok") => tlog[j].url # "direct"

\* C26: every response to a request that carries designId, sku and imageUrl
\* contains a mockupUrl, and whenever success is false that mockupUrl is the
\* request's imageUrl, on every failure path including the handler's catch.
C26_ResponseAlwaysHasMockupUrl ==
    response.sent =>
        /\ response.mockupUrl # "none"
        /\ ~response.success => response.mockupUrl = "imageUrl"

C26_Witness == response.sent /\ ~response.success /\ response.error = "endpoint"

\* the attempts made with the Flat Compositor
FlatAttempts == {id \in AttemptIds : At(id).strategy = "png"}

\* C32: for a flat template the Flat Compositor is invoked at most once per
\* request, whatever the number of layer-name candidates; a Flat failure is
\* not retried per candidate.
C32_FlatInvokedOnce ==
    tmpl = "png" => Cardinality(FlatAttempts) <= 1

\* C35: for a PSD template generateMockup returns an output path or throws,
\* for every value of mode; the handler never builds its response from an
\* undefined output path.
C35_GenerateMockupReturnsPath ==
    /\ \A k \in Calls : (tmpl = "psd" /\ task[k].pc = "returned") => task[k].out # "undefined"
    /\ mockupPath # "undefined"

(***************************************************************************)
(* Properties of the compositors' geometry (SpecRaster).                   *)
(***************************************************************************)
BasicWritten == rin.kind = "basic" /\ rout.state = "written"

\* C21: for every design of width w and height h the Basic Fallback
\* Compositor's canvas is 1.5*w wide and 1.5*h high (200x200 gives 300x300)
\* and the unmodified design is centered on it.
C21_CanvasIsOneAndAHalfTimesDesign ==
    BasicWritten =>
        /\ 2 * rout.width = 3 * rin.designWidth
        /\ 2 * rout.height = 3 * rin.designHeight
        /\ rout.drawnWidth = rin.designWidth /\ rout.drawnHeight = rin.designHeight
        /\ rout.left = (rout.width - rin.designWidth) \div 2
        /\ rout.top = (rout.height - rin.designHeight) \div 2

\* generateMockupWithPngTemplate has computed its design area, whether or not
\* sharp accepted it
FlatActed == rin.kind = "png" /\ rpc \in {"done", "threw"}

\* C39: for every flat template the design region of the Flat compositor has
\* positive width and height and lies entirely inside the template.
C39_FlatRegionInsideTemplate ==
    FlatActed =>
        LET designArea == DesignArea(rin.templateWidth, rin.templateHeight)
        IN  /\ designArea.width > 0 /\ designArea.height > 0
            /\ designArea.left >= 0 /\ designArea.top >= 0
            /\ designArea.left + designArea.width <= rin.templateWidth
            /\ designArea.top + designArea.height <= rin.templateHeight

\* generateBasicMockup has computed its canvas and offsets, whether or not
\* sharp accepted them
BasicActed == rin.kind = "basic" /\ rpc \in {"done", "threw"}

\* C38: for every design size the Basic Fallback canvas width and height are
\* positive integers, the offsets are non-negative, and the design lies
\* wholly inside the canvas.
C38_BasicCanvasHoldsDesign ==
    BasicActed =>
        LET cw2 == CanvasTimesTwo(rin.designWidth)
            ch2 == CanvasTimesTwo(rin.designHeight)
            left == CenterOffset(cw2, rin.designWidth)
            top == CenterOffset(ch2, rin.designHeight)
        IN  /\ IsInteger(cw2) /\ cw2 > 0
            /\ IsInteger(ch2) /\ ch2 > 0
            /\ left >= 0 /\ top >= 0
            /\ 2 * (left + rin.designWidth) <= cw2
            /\ 2 * (top + rin.designHeight) <= ch2

\* C29: for a flat template of width W and height H the Flat Compositor
\* writes a W x H raster in which the design is fitted, uncropped, into the
\* region of width W-100 and height H-100 whose top-left corner is (50, 50).
C29_FlatFitsInsetRegion ==
    (rin.kind = "png" /\ rpc # "start") =>
        /\ rout.state = "written"
        /\ rout.width = rin.templateWidth /\ rout.height = rin.templateHeight
        /\ rout.left = 50 /\ rout.top = 50
        /\ rout.inputWidth = rin.templateWidth - 100
        /\ rout.inputHeight = rin.templateHeight - 100
        /\ rout.drawnWidth <= rout.inputWidth /\ rout.drawnHeight <= rout.inputHeight
        /\ rout.drawnWidth = rout.inputWidth \/ rout.drawnHeight = rout.inputHeight

\* the dimensions of a raster and the region the design occupies in it
Geometry(r) ==
    <<r.state, r.width, r.height, r.left, r.top, r.inputWidth, r.inputHeight,
      r.drawnWidth, r.drawnHeight>>

InBox(p) ==
    /\ rin.left <= p.x /\ p.x < rin.left + rin.width
    /\ rin.top <= p.y /\ p.y < rin.top + rin.height

\* C30: the Layered-Document Compositor resizes the design to exactly the
\* insertion layer's width and height and composites it at the layer's
\* (left, top): every output pixel outside that box is the template's pixel
\* at the same position, every pixel inside it comes from the design.
C30_DesignFillsLayerBox ==
    (rin.kind = "psdjs" /\ rout.state = "written") =>
        /\ rout.inputWidth = rin.width /\ rout.inputHeight = rin.height
        /\ rout.left = rin.left /\ rout.top = rin.top
        /\ {<<p.x, p.y>> : p \in rout.pixels}
              = (0..(rin.templateWidth - 1)) \X (0..(rin.templateHeight - 1))
        /\ \A p \in rout.pixels :
              IF InBox(p) THEN p.value = <<"d", p.x - rin.left, p.y - rin.top>>
              ELSE p.value = <<"t", p.x, p.y>>

C30_Witness ==
    /\ rin.kind = "psdjs" /\ rout.state = "written"
    /\ rin.left # rin.top
    /\ \E p \in rout.pixels : InBox(p)
    /\ \E p \in rout.pixels : ~InBox(p)

(***************************************************************************)
(* Properties of one Remote-Editor attempt (SpecScript).                   *)
(***************************************************************************)
\* the operations of strace that belong to set S, in order
Only(S) == SelectSeq(strace, LAMBDA op : op \in S)

Count(op) == Len(Only({op}))

\* the steps of a successful attempt, in the claimed order
SuccessOrder ==
    <<"launch", "goto", "ready", "openTemplate", "openDesign", "selectAll", "copy",
      "closeDesign", "activateTemplate", "setActiveLayer", "paste", "flatten", "export",
      "write", "close">>

SuccessSteps == {SuccessOrder[i] : i \in DOMAIN SuccessOrder}

\* the position of the first occurrence of op in strace, 0 when absent
FirstAt(op) ==
    IF \E i \in DOMAIN strace : strace[i] = op
    THEN CHOOSE i \in DOMAIN strace : strace[i] = op /\ \A j \in 1..(i - 1) : strace[j] # op
    ELSE 0

\* C23: a successful Remote-Editor attempt has performed launch, navigate,
\* API ready, open template, open design, select-all/copy/close design,
\* reactivate template, set insertion layer active, paste, flatten, export,
\* write output, close session, in this order and each once; and at no time
\* has the export been requested before paste and flatten.
C23_StepsInOrder ==
    /\ spc = "returned" => Only(SuccessSteps) = SuccessOrder
    /\ FirstAt("export") # 0 =>
          /\ FirstAt("paste") # 0 /\ FirstAt("paste") < FirstAt("export")
          /\ FirstAt("flatten") # 0 /\ FirstAt("flatten") < FirstAt("export")

C23_Witness == spc = "returned" /\ Count("reload") = 1

\* the operation invoked right after the first occurrence of op, "" when none
NextAfter(op) ==
    IF FirstAt(op) # 0 /\ FirstAt(op) < Len(strace) THEN strace[FirstAt(op) + 1] ELSE ""

C25_NavigationRetriedOnce ==
    spending = "Failed to load Photopea" => Count("goto") = 2

(***************************************************************************)
(* Properties of the request's end and of cleanupFiles (SpecPublish).      *)
(***************************************************************************)
Cleaned == upc \in {"respond", "responded", "fetched", "called"}

\* C27: after a successful result the design's intermediate file is deleted
\* and the output raster still exists; cleanupFiles, given a single path or
\* a list of paths, deletes exactly those files and no other.
C27_DesignDeletedOutputKept ==
    /\ upc \in {"responded", "fetched"} => (DesignFile \notin ufiles /\ OutputFile \in ufiles)
    /\ Cleaned => ufiles = ubefore \ Elements(uarg.paths)

\* C28: on a successful response mockupUrl is the base URL, the configured
\* public path and the output's file name, and the static route serves that
\* URL's path from the directory holding the output.
C28_UrlIsServed ==
    /\ upc \in {"responded", "fetched"} =>
          /\ uurl = [base |-> "BASE_URL", path |-> PUBLIC_PATH(uenv), file |-> OutputFile]
          /\ StaticGet(uurl, ufiles) = "200"
    /\ upc = "fetched" => userved = "200"

\* the steps that open or change a document after the template was opened
DocumentSteps ==
    {"openDesign", "selectAll", "copy", "closeDesign", "setActiveLayer", "paste",
     "flatten", "export"}

C33_AtMostTenPolls ==
    /\ \A d \in DOMAIN wattempts : wattempts[d] <= 10
    /\ wpc = "check" => wattempts[wdoc] < 10
    /\ wpc = "rejected" => (wattempts[wdoc] = 10 /\ wlayers # "nonempty")
    /\ wpc = "resolved" => wlayers = "nonempty"

C33_Witness == wpc = "rejected" /\ wdoc = "design" /\ wlayers = "empty"

(***************************************************************************)
(* Properties of downloadFile in the retry loop (SpecFetch).               *)
(***************************************************************************)
\* C36: downloadDesignImage always terminates: the promise of each attempt
\* settles, also when the request is never answered or the response stream
\* errors or stalls, so the fetch returns or throws.
C36_FetchTerminates == <>(fpc \in {"returned", "threw"})

(***************************************************************************)
(* Properties of the paths of one render request (SpecPaths).              *)
(***************************************************************************)
\* C40: for every accepted sku and designId, the local template that is read
\* lies inside the templates directory, and every directory and file the
\* request creates lies inside the temp directory.
C40_PathsStayInside ==
    /\ \A p \in jread : Inside(TEMPLATES_DIR, p)
    /\ \A p \in jmade : Inside(TEMP_DIR, p)

(***************************************************************************)
(* Properties of the layer locators (SpecLocator).                         *)
(***************************************************************************)
\* the index paths of the layers named exactly `name`, in pre-order
ExactMatches(layers, name) ==
    SelectSeq(PreOrder(layers, <<>>, 1), LAMBDA p : LayerAt(layers, p).name = name)

\* C5: when the tree holds a layer named exactly like the candidate, the
\* remote locator returns the first such layer in pre-order.
C5_ExactMatchWins ==
    ("remote" \in lpc /\ ExactMatches(ltree, lname) # <<>>)
    => lremote = Head(ExactMatches(ltree, lname))

\* C6: the in-process locator and the remote locator select the same layer,
\* or both select none.
C6_LocatorsAgree ==
    ({"remote", "local"} \subseteq lpc) => lremote = llocal

\* the index paths of the layers whose lower-cased name equals the lower-cased `name`
NoCaseMatches(layers, name) ==
    SelectSeq(PreOrder(layers, <<>>, 1),
              LAMBDA p : toLowerCase(LayerAt(layers, p).name) = toLowerCase(name))

\* the index paths of the layers whose lower-cased name contains the
\* lower-cased `name` or is contained in it, in pre-order
SubstringMatches(layers, name) ==
    SelectSeq(PreOrder(layers, <<>>, 1),
              LAMBDA p : \/ includes(toLowerCase(LayerAt(layers, p).name), toLowerCase(name))
                         \/ includes(toLowerCase(name), toLowerCase(LayerAt(layers, p).name)))

\* C22: when no layer matches the candidate exactly or case-insensitively,
\* the remote locator returns the first layer in traversal order whose
\* lower-cased name contains the lower-cased candidate or is contained in it.
C22_SubstringEitherDirection ==
    ("remote" \in lpc /\ NoCaseMatches(ltree, lname) = <<>>
                      /\ SubstringMatches(ltree, lname) # <<>>)
    => lremote = Head(SubstringMatches(ltree, lname))

\* the index paths of the layers whose lower-cased name contains the
\* lower-cased `name`, in pre-order
ContainsMatches(layers, name) ==
    SelectSeq(PreOrder(layers, <<>>, 1),
              LAMBDA p : includes(toLowerCase(LayerAt(layers, p).name), toLowerCase(name)))

\* the index paths of `seq` as a set
PathSet(seq) == {seq[i] : i \in DOMAIN seq}

\* C37: the remote locator returns null exactly when no layer at any depth
\* has a lower-cased name that contains the lower-cased candidate; otherwise
\* it returns a layer of the tree.
C37_NullIffNoContainsMatch ==
    "remote" \in lpc
    => /\ (lremote = Null) <=> (ContainsMatches(ltree, lname) = <<>>)
       /\ lremote # Null => lremote \in PathSet(PreOrder(ltree, <<>>, 1))

\* the only matching layers are members of groups, and one of them is returned
C37_Witness ==
    /\ "remote" \in lpc
    /\ Len(lremote) = 2
    /\ \A i \in DOMAIN ltree :
           ~includes(toLowerCase(ltree[i].name), toLowerCase(lname))

(***************************************************************************)
(* Properties of concurrent requests (SpecFiles).                          *)
(***************************************************************************)
\* C7: two requests in flight never touch the same path.
C7_DisjointPaths ==
    \A r1, r2 \in Requests :
        (r1 # r2 /\ InFlight(r1) /\ InFlight(r2)) => touched[r1] \cap touched[r2] = {}

====
